---------------------------- MODULE Spec2Model ----------------------------
(***************************************************************************)
(* A state-machine model of MicroRL (src/src/microrl.c): the byte          *)
(* dispatcher microrl_insert_char, the escape sub-machine, the in-place    *)
(* tokenizer split/restore, the ring-buffer history and the terminal       *)
(* output.  Bytes are their ASCII codes; C strings are sequences of        *)
(* bytes; arrays are functions over 0..N-1.                                *)
(***************************************************************************)
EXTENDS Integers, Sequences, FiniteSets

(***************************************************************************)
(* Configuration (src/src/microrl_config.h).  The four sizes below are     *)
(* scaled down from the defaults (61, 8, 2, 64) so that the state space    *)
(* is finite and small; every other number is the program's own.           *)
(***************************************************************************)
MICRORL_CFG_CMDLINE_LEN == 6

MICRORL_CFG_CMD_TOKEN_NMB == 3

MICRORL_CFG_QUOTED_TOKEN_NMB == 1

MICRORL_CFG_RING_HISTORY_LEN == 7

MICRORL_CFG_PRINT_BUFFER_LEN == 40

MICRORL_CFG_PROMPT_LEN == 7

\* "\033[32mIRin >\033[0m "
prompt_default == <<27, 91, 51, 50, 109, 73, 82, 105, 110, 32, 62, 27, 91, 48, 109, 32>>

\* ENDL "\n"
MICRORL_CFG_END_LINE == <<10>>

(***************************************************************************)
(* Key codes (microrl_key_ascii_t) and the other bytes the code names.     *)
(***************************************************************************)
MICRORL_KEY_SOH == 1

MICRORL_KEY_STX == 2

MICRORL_KEY_ETX == 3

MICRORL_KEY_EOT == 4

MICRORL_KEY_ENQ == 5

MICRORL_KEY_ACK == 6

MICRORL_KEY_BS == 8

MICRORL_KEY_HT == 9

MICRORL_KEY_LF == 10

MICRORL_KEY_VT == 11

MICRORL_KEY_CR == 13

MICRORL_KEY_SO == 14

MICRORL_KEY_DLE == 16

MICRORL_KEY_DC2 == 18

MICRORL_KEY_NAK == 21

MICRORL_KEY_ESC == 27

MICRORL_KEY_DEL == 127

CH_SPACE == 32

CH_DQUOTE == 34

CH_SQUOTE == 39

CH_STAR == 42

CH_BRACKET == 91

CH_TILDE == 126

IS_CONTROL_CHAR(x) == x <= 31

\* microrl_echo_t
MICRORL_ECHO_ONCE == "ONCE"

MICRORL_ECHO_ON == "ON"

MICRORL_ECHO_OFF == "OFF"

\* microrl_esc_t: escape_seq is 0 after memset, then one of these
MICRORL_ESC_BRACKET == 1

MICRORL_ESC_HOME == 2

MICRORL_ESC_END == 3

\* the null pointer of quotes[].begin / quotes[].end (pointers are indices
\* into cmdline, so 0 is a valid pointer and NULL needs its own value)
NULL == -1

CmdIdx == 0 .. (MICRORL_CFG_CMDLINE_LEN - 1)

RingIdx == 0 .. (MICRORL_CFG_RING_HISTORY_LEN - 1)

ZeroLine == [i \in CmdIdx |-> 0]

\* bytes cmdline[from .. to-1] as a sequence (indices inside the array)
Bytes(buf, from, to) == [k \in 1 .. (IF to > from THEN to - from ELSE 0) |-> buf[from + k - 1]]

(***************************************************************************)
(* The trace of one call: what was sent to the print sink and which        *)
(* callbacks and internal steps ran, in program order.                     *)
(***************************************************************************)
Ev(op, s, argv) == [op |-> op, s |-> s, argv |-> argv]

Emit(m, str) == [m EXCEPT !.log = Append(@, Ev("print", str, <<>>))]

Note(m, op, s, argv) == [m EXCEPT !.log = Append(@, Ev(op, s, argv))]

\* undefined behaviour the build cannot survive in a defined way: a memmove
\* or a loop with a negative count taken as size_t, a write outside cmdline
Fault(m) == [m EXCEPT !.fault = TRUE]

RECURSIVE Concat(_)
Concat(ss) == IF ss = <<>> THEN <<>> ELSE Head(ss) \o Concat(Tail(ss))


(***************************************************************************)
(* History ring (microrl_hist_rbuf_t): h = [ring_buf, begin, end, cur].    *)
(***************************************************************************)
MICRORL_HIST_FULL == "FULL"

MICRORL_HIST_NOT_FULL == "NOT_FULL"

MICRORL_HIST_DIR_UP == "UP"

MICRORL_HIST_DIR_DOWN == "DOWN"

\* header += ring_buf[header] + 1, with the single wrap the code does
NextHeader(h, header) ==
    LET new_pos == header + h.ring_buf[header] + 1
    IN  IF new_pos >= MICRORL_CFG_RING_HISTORY_LEN
        THEN new_pos - MICRORL_CFG_RING_HISTORY_LEN
        ELSE new_pos

\* hist_erase_older dropping one byte, not one record
hist_erase_older_byte(h) ==
    [h EXCEPT !.begin = (h.begin + 1) % MICRORL_CFG_RING_HISTORY_LEN]

hist_erase_older(h) == [h EXCEPT !.begin = NextHeader(h, h.begin)]

\* hist_is_space_for_new finding a ring that is not empty always full
hist_is_space_for_new_never(h, len) ==
    IF h.ring_buf[h.begin] = 0 THEN MICRORL_HIST_NOT_FULL ELSE MICRORL_HIST_FULL

\* hist_is_space_for_new with one byte more counted as free
hist_is_space_for_new_loose(h, len) ==
    IF h.ring_buf[h.begin] = 0 THEN MICRORL_HIST_NOT_FULL
    ELSE IF h.end >= h.begin
         THEN IF (MICRORL_CFG_RING_HISTORY_LEN - h.end + h.begin) > len
              THEN MICRORL_HIST_NOT_FULL ELSE MICRORL_HIST_FULL
         ELSE IF (h.begin - h.end) > len
              THEN MICRORL_HIST_NOT_FULL ELSE MICRORL_HIST_FULL

hist_is_space_for_new(h, len) ==
    IF h.ring_buf[h.begin] = 0 THEN MICRORL_HIST_NOT_FULL
    ELSE IF h.end >= h.begin
         THEN IF (MICRORL_CFG_RING_HISTORY_LEN - h.end + h.begin - 1) > len
              THEN MICRORL_HIST_NOT_FULL ELSE MICRORL_HIST_FULL
         ELSE IF (h.begin - h.end - 1) > len
              THEN MICRORL_HIST_NOT_FULL ELSE MICRORL_HIST_FULL

\* while (hist_is_space_for_new(prbuf, len) == FULL) hist_erase_older(prbuf);
RECURSIVE EraseWhileFull(_, _)
EraseWhileFull(h, len) ==
    IF hist_is_space_for_new(h, len) = MICRORL_HIST_FULL
    THEN EraseWhileFull(hist_erase_older(h), len)
    ELSE h

\* the ring index the k-th byte (k = 0..len-1) of the line is copied to by
\* the one or two memcpy calls
StorePos(h, len, k) ==
    IF len < (MICRORL_CFG_RING_HISTORY_LEN - h.end - 1)
    THEN h.end + 1 + k
    ELSE LET part_len == MICRORL_CFG_RING_HISTORY_LEN - h.end - 1
         IN  IF k < part_len THEN h.end + 1 + k ELSE k - part_len

\* EndMark that leaves the byte at the new end as it was
EndMarkMissing(ring_buf, end) == ring_buf

\* prbuf->ring_buf[prbuf->end] = 0;
EndMark(ring_buf, end) == [ring_buf EXCEPT ![end] = 0]

\* hist_save_line without the test of the length
hist_save_line_any(h, line, len) ==
    LET h1 == EraseWhileFull(h, len)
        rb1 == IF h1.ring_buf[h1.begin] = 0
               THEN [h1.ring_buf EXCEPT ![h1.begin] = len]
               ELSE h1.ring_buf
        rb2 == [i \in RingIdx |->
                  LET ks == {k \in 0 .. (len - 1) : StorePos(h1, len, k) = i}
                  IN  IF ks = {} THEN rb1[i] ELSE line[(CHOOSE k \in ks : TRUE) + 1]]
        rb3 == [rb2 EXCEPT ![h1.end] = len]
        e1  == h1.end + len + 1
        e2  == IF e1 >= MICRORL_CFG_RING_HISTORY_LEN
               THEN e1 - MICRORL_CFG_RING_HISTORY_LEN ELSE e1
    IN  [ring_buf |-> EndMark(rb3, e2), begin |-> h1.begin, end |-> e2, cur |-> 0]

\* line is the sequence cmdline[0..len-1]
hist_save_line(h, line, len) ==
    IF len > (MICRORL_CFG_RING_HISTORY_LEN - 2) THEN h
    ELSE
    LET h1 == EraseWhileFull(h, len)
        rb1 == IF h1.ring_buf[h1.begin] = 0
               THEN [h1.ring_buf EXCEPT ![h1.begin] = len]
               ELSE h1.ring_buf
        rb2 == [i \in RingIdx |->
                  LET ks == {k \in 0 .. (len - 1) : StorePos(h1, len, k) = i}
                  IN  IF ks = {} THEN rb1[i] ELSE line[(CHOOSE k \in ks : TRUE) + 1]]
        rb3 == [rb2 EXCEPT ![h1.end] = len]
        e1  == h1.end + len + 1
        e2  == IF e1 >= MICRORL_CFG_RING_HISTORY_LEN
               THEN e1 - MICRORL_CFG_RING_HISTORY_LEN ELSE e1
    IN  [ring_buf |-> EndMark(rb3, e2), begin |-> h1.begin, end |-> e2, cur |-> 0]

\* the counting loop of hist_restore_line; -1 when the walk never meets a
\* zero header (the loop would not terminate)
RECURSIVE CountRecords(_, _, _)
CountRecords(h, header, cnt) ==
    IF h.ring_buf[header] = 0 THEN cnt
    ELSE IF cnt > MICRORL_CFG_RING_HISTORY_LEN THEN -1
    ELSE CountRecords(h, NextHeader(h, header), cnt + 1)

\* the search loops: walk while the header is non-zero and stop(j) is false
\* FindHeaderUp stopping one record late
RECURSIVE FindHeaderUpLate(_, _, _, _)
FindHeaderUpLate(h, header, j, cnt) ==
    IF (h.ring_buf[header] # 0) /\ ((cnt - j) # h.cur)
    THEN FindHeaderUpLate(h, NextHeader(h, header), j + 1, cnt)
    ELSE header

RECURSIVE FindHeaderUp(_, _, _, _)
FindHeaderUp(h, header, j, cnt) ==
    IF (h.ring_buf[header] # 0) /\ ((cnt - j - 1) # h.cur)
    THEN FindHeaderUp(h, NextHeader(h, header), j + 1, cnt)
    ELSE header

RECURSIVE FindHeaderDown(_, _, _, _)
FindHeaderDown(h, header, j, cnt) ==
    IF (h.ring_buf[header] # 0) /\ ((cnt - j) # h.cur)
    THEN FindHeaderDown(h, NextHeader(h, header), j + 1, cnt)
    ELSE header

\* RecordByte with part0 one too large: the second memcpy starts one byte late
RecordByteShifted(h, header, k) ==
    IF (h.ring_buf[header] + header) < MICRORL_CFG_RING_HISTORY_LEN
    THEN h.ring_buf[header + 1 + k]
    ELSE LET part0 == MICRORL_CFG_RING_HISTORY_LEN - header
         IN  IF k < part0
             THEN h.ring_buf[(header + 1 + k) % MICRORL_CFG_RING_HISTORY_LEN]
             ELSE h.ring_buf[k - part0]

\* the payload byte k (k = 0..len-1) of the record at header, as the one or
\* two memcpy calls of hist_restore_line read it
RecordByte(h, header, k) ==
    IF (h.ring_buf[header] + header) < MICRORL_CFG_RING_HISTORY_LEN
    THEN h.ring_buf[header + 1 + k]
    ELSE LET part0 == MICRORL_CFG_RING_HISTORY_LEN - header - 1
         IN  IF k < part0 THEN h.ring_buf[header + 1 + k] ELSE h.ring_buf[k - part0]

\* memcpy of the record into line; base is line itself or the zeroed line
CopyRecord(h, header, base) ==
    [i \in CmdIdx |-> IF i < h.ring_buf[header] THEN RecordByte(h, header, i) ELSE base[i]]

\* returns [h, line, ret]; hang when the counting loop cannot end
hist_restore_line(h, line, dir) ==
    LET cnt == CountRecords(h, h.begin, 0)
        same == [h |-> h, line |-> line, ret |-> -1, hang |-> FALSE]
    IN
    IF cnt < 0 THEN [same EXCEPT !.hang = TRUE]
    ELSE IF dir = MICRORL_HIST_DIR_UP THEN
        IF cnt >= h.cur
        THEN LET header == FindHeaderUp(h, h.begin, 0, cnt)
             IN  IF h.ring_buf[header] # 0
                 THEN [h |-> [h EXCEPT !.cur = @ + 1],
                       line |-> CopyRecord(h, header, ZeroLine),
                       ret |-> h.ring_buf[header], hang |-> FALSE]
                 ELSE same
        ELSE same
    ELSE
        IF h.cur > 0
        THEN LET h1 == [h EXCEPT !.cur = @ - 1]
                 header == FindHeaderDown(h1, h1.begin, 0, cnt)
             IN  [h |-> h1, line |-> CopyRecord(h1, header, line),
                  ret |-> h1.ring_buf[header], hang |-> FALSE]
        ELSE [same EXCEPT !.ret = 0]

(***************************************************************************)
(* Tokenizer.  A split state is st = [cl, q, ind, i, iq, quote, tkn, ret]: *)
(* cl the command line, q the quotes[] table, tkn the token pointers       *)
(* (indices into cl) and ret the return value once the function returned   *)
(* (RUNNING before).                                                       *)
(***************************************************************************)
RUNNING == -2

QuoteIdx == 0 .. (MICRORL_CFG_QUOTED_TOKEN_NMB - 1)

NoQuotes == [iq \in QuoteIdx |-> [begin |-> NULL, end |-> NULL]]

\* the loop of restore from entry iq on; returns [cl, q]
RECURSIVE RestoreFrom(_, _, _)
RestoreFrom(cl, q, iq) ==
    IF iq >= MICRORL_CFG_QUOTED_TOKEN_NMB THEN [cl |-> cl, q |-> q]
    ELSE IF q[iq].end = NULL THEN [cl |-> cl, q |-> q]
    ELSE RestoreFrom([cl EXCEPT ![q[iq].end] = cl[q[iq].begin]],
                     [q EXCEPT ![iq] = [begin |-> NULL, end |-> NULL]],
                     iq + 1)

restore(cl, q) == RestoreFrom(cl, q, 0)

\* restore(mrl); return -1;
Restored(st, r) == [st EXCEPT !.cl = r.cl, !.q = r.q, !.ret = -1]

SplitFail(st) == Restored(st, restore(st.cl, st.q))

\* while ((cmdline[ind] == '\0') && (ind < limit)) ind++;
RECURSIVE SkipZeros(_, _, _)
SkipZeros(cl, ind, limit) ==
    IF (cl[ind] = 0) /\ (ind < limit) THEN SkipZeros(cl, ind + 1, limit) ELSE ind

\* while (ind < limit) { ... }: the scan of one token.  Leaves ret = -1 on
\* the failure path, RUNNING otherwise.
RECURSIVE ScanToken(_, _)
ScanToken(st, limit) ==
    IF ~(st.ind < limit) THEN st
    ELSE IF st.cl[st.ind] = 0 THEN
        IF st.quote = 0 THEN st
        ELSE ScanToken([st EXCEPT !.cl[st.ind] = CH_SPACE, !.ind = @ + 1], limit)
    ELSE IF st.cl[st.ind] = st.quote THEN
        IF st.cl[st.ind + 1] # 0 THEN SplitFail(st)
        ELSE [st EXCEPT !.quote = 0,
                        !.q[st.iq].end = st.ind,
                        !.iq = @ + 1,
                        !.cl[st.ind] = 0,
                        !.ind = @ + 1]
    ELSE ScanToken([st EXCEPT !.ind = @ + 1], limit)

IsQuote(ch) == (ch = CH_SQUOTE) \/ (ch = CH_DQUOTE)

\* tkn_arr[i++] = mrl->cmdline + ind;
PushToken(st) == [st EXCEPT !.tkn = Append(@, st.ind), !.i = @ + 1]

\* the opening quote, if any, and the token pointer of the token at ind1
OpenToken(st, ind1) ==
    PushToken(IF IsQuote(st.cl[ind1])
              THEN [st EXCEPT !.quote = st.cl[ind1],
                              !.q[st.iq].begin = ind1,
                              !.ind = ind1 + 1]
              ELSE [st EXCEPT !.ind = ind1])

\* after the scan of a token: the end of the line, or the next pass
AfterScan(st, limit) ==
    IF st.ret = -1 THEN st
    ELSE IF ~(st.ind < limit) THEN
        IF st.quote # 0 THEN SplitFail(st) ELSE [st EXCEPT !.ret = st.i]
    ELSE st

\* if (i >= MICRORL_CFG_CMD_TOKEN_NMB) fail; else scan the token
ScanFrom(st, limit) ==
    IF st.i >= MICRORL_CFG_CMD_TOKEN_NMB THEN SplitFail(st)
    ELSE AfterScan(ScanToken(st, limit), limit)

\* one pass of the while (1) loop, the zero bytes skipped up to ind1
SplitPass(st, ind1, limit) ==
    IF ~(ind1 < limit) THEN [st EXCEPT !.ind = ind1, !.ret = st.i]
    ELSE IF IsQuote(st.cl[ind1]) /\ st.iq >= MICRORL_CFG_QUOTED_TOKEN_NMB
    THEN SplitFail([st EXCEPT !.ind = ind1])
    ELSE ScanFrom(OpenToken(st, ind1), limit)

\* the while (1) loop: passes until the function returns
RECURSIVE SplitLoop(_, _)
SplitLoop(st, limit) ==
    IF st.ret # RUNNING THEN st
    ELSE SplitLoop(SplitPass(st, SkipZeros(st.cl, st.ind, limit), limit), limit)

\* returns the final split state: ret the status, tkn the token pointers,
\* cl and q the command line and quotes[] as split leaves them
split(cl, limit) ==
    SplitLoop([cl |-> cl, q |-> NoQuotes, ind |-> 0, i |-> 0, iq |-> 0,
               quote |-> 0, tkn |-> <<>>, ret |-> RUNNING], limit)

\* the C string at cmdline + p: the bytes up to the first zero byte
RECURSIVE CStr(_, _)
CStr(cl, p) ==
    IF p >= MICRORL_CFG_CMDLINE_LEN THEN <<>>
    ELSE IF cl[p] = 0 THEN <<>>
    ELSE <<cl[p]>> \o CStr(cl, p + 1)

\* argv as a callback reads it: the C string at each token pointer
Argv(cl, tkn) == [k \in 1 .. Len(tkn) |-> CStr(cl, tkn[k])]

(***************************************************************************)
(* Terminal output.  m is the instance during a call: the fields of        *)
(* microrl_t plus log (the trace of the call), fault, and USE_HISTORY,     *)
(* the compile-time switch MICRORL_CFG_USE_HISTORY of the build.           *)
(***************************************************************************)
RECURSIVE Digits(_)
Digits(n) == IF n < 10 THEN <<48 + n>> ELSE Digits(n \div 10) \o <<48 + (n % 10)>>

\* the string generate_move_cursor writes: "\033[<n>C", "\033[<n>D" or ""
generate_move_cursor(offset) ==
    LET o1 == IF offset > 999 THEN 999 ELSE IF offset < -999 THEN -999 ELSE offset
    IN  IF o1 = 0 THEN <<>>
        ELSE IF o1 < 0 THEN <<27, 91>> \o Digits(-o1) \o <<68>>
        ELSE <<27, 91>> \o Digits(o1) \o <<67>>

print_prompt(m) == Emit(m, prompt_default)

\* "\033[D \033[D"
terminal_backspace(m) == Emit(m, <<27, 91, 68, 32, 27, 91, 68>>)

terminal_newline(m) == Emit(m, MICRORL_CFG_END_LINE)

terminal_move_cursor(m, offset) ==
    IF offset # 0 THEN Emit(m, generate_move_cursor(offset)) ELSE m

\* cmdline[i] as the line is printed: '\0' shown as ' '
Shown(c) == IF c = 0 THEN CH_SPACE ELSE c

\* The bytes terminal_print_line sends, as one event: the flushes of the
\* batch buffer are concatenated.  The loop compares the size_t i with the
\* int cmdlen, so with pos >= 0 and cmdlen < 0 it runs off the buffer.
terminal_print_line(m, pos, reset) ==
    IF m.echo = MICRORL_ECHO_OFF THEN m
    ELSE IF (pos >= 0 /\ m.cmdlen < 0) \/ (pos < 0 /\ m.cmdlen < 0 /\ pos < m.cmdlen)
    THEN Fault(m)
    ELSE
    LET head == IF reset
                THEN <<13>> \o generate_move_cursor(MICRORL_CFG_PROMPT_LEN + pos)
                ELSE <<>>
        n    == IF pos >= 0 /\ m.cmdlen > pos THEN m.cmdlen - pos ELSE 0
        body == [k \in 1 .. n |-> Shown(m.cmdline[pos + k - 1])]
    IN  Emit(m, head \o body \o <<27, 91, 75>> \o generate_move_cursor(m.cursor - m.cmdlen))

(***************************************************************************)
(* The batch buffer of terminal_print_line: char str[                      *)
(* MICRORL_CFG_PRINT_BUFFER_LEN], not initialised.  b = [buf, zeros, out,  *)
(* over]: buf the bytes written from str[0] on (j - str = Len(buf)), zeros *)
(* the indices of str that hold 0, out the strings printed, over whether a *)
(* byte was written behind the end of str.                                 *)
(***************************************************************************)
\* str as the call finds it: z is the index of its one 0 byte, none if z is
\* MICRORL_CFG_PRINT_BUFFER_LEN, and with z = -1 every byte is 0; the
\* generate_move_cursor calls of the reset leave head and a 0 behind it
FreshStr(head, z) ==
    [buf |-> head,
     zeros |-> ((IF z = -1 THEN 0 .. (MICRORL_CFG_PRINT_BUFFER_LEN - 1)
                 ELSE {z} \cap (0 .. (MICRORL_CFG_PRINT_BUFFER_LEN - 1)))
                \ (0 .. (Len(head) - 1)))
               \cup (IF head # <<>> THEN {Len(head)} ELSE {}),
     out |-> <<>>,
     over |-> FALSE]

\* *j = '\0'; mrl->print(mrl, str); j = str;
FlushStr(b) ==
    IF Len(b.buf) >= MICRORL_CFG_PRINT_BUFFER_LEN THEN [b EXCEPT !.over = TRUE]
    ELSE [b EXCEPT !.out = Append(@, b.buf), !.zeros = @ \cup {Len(b.buf)}, !.buf = <<>>]

\* FlushIfZero that tests for the end of str
FlushIfFull(b) ==
    IF Len(b.buf) = MICRORL_CFG_PRINT_BUFFER_LEN - 1 THEN FlushStr(b) ELSE b

\* if ((j - str) == strlen(str)) { flush }: str is 0-free up to j, so the
\* test holds if and only if str[j] is 0 (with no 0 left in str, strlen
\* reads on behind it)
FlushIfZero(b) ==
    IF Len(b.buf) \in b.zeros THEN FlushStr(b) ELSE b

\* *j++ = c, and the test after it
PutStr(b, c) ==
    IF b.over THEN b
    ELSE IF Len(b.buf) >= MICRORL_CFG_PRINT_BUFFER_LEN THEN [b EXCEPT !.over = TRUE]
    ELSE FlushIfZero([b EXCEPT !.buf = Append(@, c), !.zeros = @ \ {Len(b.buf)}])

\* the for loop over the bytes of the line from the k-th on
RECURSIVE PutLine(_, _, _)
PutLine(b, line, k) ==
    IF k > Len(line) THEN b
    ELSE PutLine(PutStr(b, Shown(line[k])), line, k + 1)

\* if ((j - str + 3 + 6 + 1) > MICRORL_CFG_PRINT_BUFFER_LEN) { flush }
MakeRoom(b) ==
    IF b.over THEN b
    ELSE IF Len(b.buf) + 3 + 6 + 1 > MICRORL_CFG_PRINT_BUFFER_LEN THEN FlushStr(b)
    ELSE b

\* the erase sequence and the cursor move, then the last print
PutTail(b, tail) ==
    IF b.over THEN b
    ELSE IF Len(b.buf) + Len(tail) + 1 > MICRORL_CFG_PRINT_BUFFER_LEN
    THEN [b EXCEPT !.over = TRUE]
    ELSE [b EXCEPT !.out = Append(@, b.buf \o tail), !.buf = <<>>]

\* what terminal_print_line does with str: head is what the reset wrote,
\* line the bytes cmdline[pos..cmdlen), tail "\033[K" and the cursor move
PrintBatch(head, line, tail, z) ==
    PutTail(MakeRoom(PutLine(FreshStr(head, z), line, 1)), tail)

(***************************************************************************)
(* Editing primitives.                                                     *)
(***************************************************************************)
InitMrl ==
    [escape_seq |-> 0, escape |-> 0, last_endl |-> 0,
     ring_hist |-> [ring_buf |-> [i \in RingIdx |-> 0], begin |-> 0, end |-> 0, cur |-> 0],
     cmdline |-> ZeroLine, cmdlen |-> 0, cursor |-> 0,
     quotes |-> NoQuotes,
     execute |-> FALSE, get_completion |-> FALSE, sigint |-> FALSE,
     echo |-> MICRORL_ECHO_ON, start_password |-> -1]

microrl_set_echo(m, echo) == [m EXCEPT !.echo = echo]

\* InsertTextOK letting the line fill the whole buffer
InsertTextOKFull(m, len) == (m.cmdlen + len) <= MICRORL_CFG_CMDLINE_LEN

\* the condition under which microrl_insert_text returns microrlOK
InsertTextOK(m, len) == (m.cmdlen + len) < MICRORL_CFG_CMDLINE_LEN

\* StoreByte keeping the space
StoreByteRaw(b) == b

\* cmdline[cursor + i] = text[i]; if it is ' ', 0 instead
StoreByte(b) == IF b = CH_SPACE THEN 0 ELSE b

\* text is a sequence of len bytes
microrl_insert_text(m, text, len) ==
    IF ~InsertTextOK(m, len) THEN m
    ELSE
    LET m1 == IF (m.echo = MICRORL_ECHO_ONCE) /\ (m.start_password = -1)
              THEN [m EXCEPT !.start_password = m.cmdlen]
              ELSE m
    IN
    IF (m.cmdlen - m.cursor < 0) \/ (m.cursor < 0) THEN Fault(m1)
    ELSE
    LET moved == [i \in CmdIdx |->
                    IF i >= m.cursor + len /\ i < m.cmdlen + len
                    THEN m.cmdline[i - len] ELSE m.cmdline[i]]
        put   == [i \in CmdIdx |->
                    IF i >= m.cursor /\ i < m.cursor + len
                    THEN StoreByte(text[i - m.cursor + 1])
                    ELSE moved[i]]
    IN  [m1 EXCEPT !.cmdline = [put EXCEPT ![m.cmdlen + len] = 0],
                   !.cursor = @ + len,
                   !.cmdlen = @ + len]

\* the number of bytes the memmove of microrl_backspace reads past the end
\* of cmdline
BackspaceOverread(m, len) ==
    IF m.cursor >= len /\ m.cmdlen + len > MICRORL_CFG_CMDLINE_LEN
    THEN m.cmdlen + len - MICRORL_CFG_CMDLINE_LEN ELSE 0

\* g[k] is the byte found at cmdline[MICRORL_CFG_CMDLINE_LEN + k - 1]
microrl_backspace(m, len, g) ==
    IF ~(m.cursor >= len) THEN m
    ELSE IF (m.cmdlen - m.cursor + len < 0) \/ (m.cmdlen < 0) THEN Fault(m)
    ELSE
    LET src(i) == IF i < MICRORL_CFG_CMDLINE_LEN THEN m.cmdline[i]
                  ELSE g[i - MICRORL_CFG_CMDLINE_LEN + 1]
        moved == [i \in CmdIdx |->
                    IF i >= m.cursor - len /\ i < m.cmdlen THEN src(i + len)
                    ELSE m.cmdline[i]]
        m1 == IF BackspaceOverread(m, len) > 0
              THEN Note(m, "oob_read", <<MICRORL_CFG_CMDLINE_LEN, m.cmdlen + len - 1>>, <<>>)
              ELSE m
    IN  [m1 EXCEPT !.cmdline = [moved EXCEPT ![m.cmdlen] = 0],
                   !.cursor = @ - len,
                   !.cmdlen = @ - len]

microrl_delete(m) ==
    IF ~(m.cmdlen > 0) THEN m
    ELSE IF (m.cmdlen - m.cursor + 1 < 0) \/ (m.cursor < 0) THEN Fault(m)
    ELSE
    LET moved == [i \in CmdIdx |->
                    IF i >= m.cursor /\ i < m.cmdlen THEN m.cmdline[i + 1]
                    ELSE m.cmdline[i]]
        m1 == IF m.cmdlen - m.cursor + 1 > 0 /\ m.cmdlen + 1 >= MICRORL_CFG_CMDLINE_LEN
              THEN Note(m, "oob_read", <<m.cmdlen + 1, m.cmdlen + 1>>, <<>>)
              ELSE m
    IN  [m1 EXCEPT !.cmdline = [moved EXCEPT ![m.cmdlen] = 0],
                   !.cmdlen = @ - 1]

\* what hist_search does with r, the outcome of hist_restore_line
ShowRestored(m, r) ==
    IF r.hang THEN Fault(m)
    ELSE IF r.ret >= 0
    THEN terminal_print_line(
             [m EXCEPT !.ring_hist = r.h,
                       !.cmdline = [r.line EXCEPT ![r.ret] = 0],
                       !.cursor = r.ret,
                       !.cmdlen = r.ret], 0, TRUE)
    ELSE [m EXCEPT !.ring_hist = r.h, !.cmdline = r.line]

hist_search(m, dir) == ShowRestored(m, hist_restore_line(m.ring_hist, m.cmdline, dir))

(***************************************************************************)
(* Escape sub-machine: returns [m, ret], ret = 1 when the sequence ended.  *)
(***************************************************************************)
escape_process(m, c) ==
    IF c = CH_BRACKET
    THEN [m |-> [m EXCEPT !.escape_seq = MICRORL_ESC_BRACKET], ret |-> 0]
    ELSE IF m.escape_seq = MICRORL_ESC_BRACKET THEN
        IF c = 65 THEN
            [m |-> IF m.USE_HISTORY /\ m.echo = MICRORL_ECHO_ON
                   THEN hist_search(m, MICRORL_HIST_DIR_UP) ELSE m,
             ret |-> 1]
        ELSE IF c = 66 THEN
            [m |-> IF m.USE_HISTORY /\ m.echo = MICRORL_ECHO_ON
                   THEN hist_search(m, MICRORL_HIST_DIR_DOWN) ELSE m,
             ret |-> 1]
        ELSE IF c = 67 THEN
            [m |-> IF m.cursor < m.cmdlen
                   THEN [terminal_move_cursor(m, 1) EXCEPT !.cursor = @ + 1] ELSE m,
             ret |-> 1]
        ELSE IF c = 68 THEN
            [m |-> IF m.cursor > 0
                   THEN [terminal_move_cursor(m, -1) EXCEPT !.cursor = @ - 1] ELSE m,
             ret |-> 1]
        ELSE IF c = 55 THEN [m |-> [m EXCEPT !.escape_seq = MICRORL_ESC_HOME], ret |-> 0]
        ELSE IF c = 56 THEN [m |-> [m EXCEPT !.escape_seq = MICRORL_ESC_END], ret |-> 0]
        ELSE [m |-> m, ret |-> 1]
    ELSE IF c = CH_TILDE THEN
        IF m.escape_seq = MICRORL_ESC_HOME
        THEN [m |-> [terminal_move_cursor(m, -m.cursor) EXCEPT !.cursor = 0], ret |-> 1]
        ELSE IF m.escape_seq = MICRORL_ESC_END
        THEN [m |-> [terminal_move_cursor(m, m.cmdlen - m.cursor) EXCEPT !.cursor = m.cmdlen],
              ret |-> 1]
        ELSE [m |-> m, ret |-> 1]
    ELSE [m |-> m, ret |-> 1]

(***************************************************************************)
(* New-line handler.  ex is what the execute callback does to the          *)
(* instance: KEEP (nothing) or a microrl_set_echo call.                    *)
(***************************************************************************)
KEEP == "KEEP"

\* "ERROR:too many tokens or invalid quoting"
ErrorMsg == <<69, 82, 82, 79, 82, 58, 116, 111, 111, 32, 109, 97, 110, 121, 32, 116, 111,
              107, 101, 110, 115, 32, 111, 114, 32, 105, 110, 118, 97, 108, 105, 100, 32,
              113, 117, 111, 116, 105, 110, 103>>

\* TokenizeLine without the error report
TokenizeLineSilent(m) ==
    LET st == split(m.cmdline, m.cmdlen)
    IN  [m  |-> Note([m EXCEPT !.cmdline = st.cl, !.quotes = st.q],
                     "split", <<st.ret>>, <<Bytes(m.cmdline, 0, m.cmdlen)>>),
         st |-> st]

\* the status = split(...) call of the handler and its error report
ReportError(m, status) ==
    IF status = -1 THEN Emit(Emit(m, ErrorMsg), MICRORL_CFG_END_LINE) ELSE m

\* the instance and the trace once split has returned st
Tokenized(m, st) ==
    [m  |-> ReportError(Note([m EXCEPT !.cmdline = st.cl, !.quotes = st.q],
                             "split", <<st.ret>>, <<Bytes(m.cmdline, 0, m.cmdlen)>>),
                        st.ret),
     st |-> st]

TokenizeLine(m) == Tokenized(m, split(m.cmdline, m.cmdlen))

\* ResetLine without ring_hist.cur = 0
ResetLineKeepsCur(m) ==
    [m EXCEPT !.cmdlen = 0,
              !.cursor = 0,
              !.cmdline = ZeroLine]

\* the end of the handler: cmdlen = 0; cursor = 0; memset(cmdline, 0, ...);
\* ring_hist.cur = 0;
ResetLine(m) ==
    [m EXCEPT !.cmdlen = 0,
              !.cursor = 0,
              !.cmdline = ZeroLine,
              !.ring_hist.cur = IF m.USE_HISTORY THEN 0 ELSE @]

\* SaveLine whatever the echo mode
SaveLineAnyEcho(m) ==
    IF m.USE_HISTORY /\ (m.cmdlen > 0)
    THEN Note([m EXCEPT !.ring_hist =
                  hist_save_line(@, Bytes(m.cmdline, 0, m.cmdlen), m.cmdlen)],
              "hist_save_line", Bytes(m.cmdline, 0, m.cmdlen), <<>>)
    ELSE m

\* hist_save_line under its condition
SaveLine(m) ==
    IF m.USE_HISTORY /\ (m.cmdlen > 0) /\ (m.echo = MICRORL_ECHO_ON)
    THEN Note([m EXCEPT !.ring_hist =
                  hist_save_line(@, Bytes(m.cmdline, 0, m.cmdlen), m.cmdlen)],
              "hist_save_line", Bytes(m.cmdline, 0, m.cmdlen), <<>>)
    ELSE m

\* EndPassword leaving the echo mode as it is
EndPasswordNever(m) == m

\* the one-shot password echo ends with the line
EndPassword(m) ==
    IF m.echo = MICRORL_ECHO_ONCE
    THEN [microrl_set_echo(m, MICRORL_ECHO_ON) EXCEPT !.start_password = -1]
    ELSE m

\* what the execute callback does to the instance
ExecuteReturns(m, ex) ==
    IF ex = KEEP THEN m
    ELSE microrl_set_echo(Note(m, "microrl_set_echo", <<ex>>, <<>>), ex)

\* CallExecute without the test of mrl->execute
CallExecuteUnset(t, ex) ==
    IF t.st.ret > 0
    THEN ExecuteReturns(Note(t.m, "execute", <<t.st.ret>>, Argv(t.m.cmdline, t.st.tkn)), ex)
    ELSE t.m

\* t is what TokenizeLine returned
CallExecute(t, ex) ==
    IF (t.st.ret > 0) /\ t.m.execute
    THEN ExecuteReturns(Note(t.m, "execute", <<t.st.ret>>, Argv(t.m.cmdline, t.st.tkn)), ex)
    ELSE t.m

\* new_line_handler printing the prompt before it tokenizes and executes
new_line_handler_prompt_first(m, ex) ==
    ResetLine(
        CallExecute(TokenizeLine(print_prompt(EndPassword(SaveLine(terminal_newline(m))))), ex))

new_line_handler(m, ex) ==
    ResetLine(print_prompt(
        CallExecute(TokenizeLine(EndPassword(SaveLine(terminal_newline(m)))), ex)))

(***************************************************************************)
(* Completion (Tab).  cands is what the get_completion callback returns    *)
(* (a sequence of strings, <<>> for no candidate); gb is the byte found at *)
(* cmdline[-1], which the code reads when the cursor is at 0.              *)
(***************************************************************************)
\* the first shortest string of arr
RECURSIVE Shortest(_, _, _)
Shortest(arr, j, best) ==
    IF j > Len(arr) THEN best
    ELSE Shortest(arr, j + 1, IF Len(arr[j]) < Len(best) THEN arr[j] ELSE best)

RECURSIVE CommonFrom(_, _, _)
CommonFrom(arr, shortest, i) ==
    IF ~(i < Len(shortest)) THEN i
    ELSE IF \E j \in 1 .. Len(arr) : shortest[i + 1] # arr[j][i + 1] THEN i
    ELSE CommonFrom(arr, shortest, i + 1)

common_len(arr) == CommonFrom(arr, Shortest(arr, 1, arr[1]), 0)

\* while (compl_token[i] != NULL) { print(compl_token[i]); print(" "); i++; }
RECURSIVE PrintCandidates(_, _, _)
PrintCandidates(m, cands, i) ==
    IF i > Len(cands) THEN m
    ELSE PrintCandidates(Emit(Emit(m, cands[i]), <<CH_SPACE>>), cands, i + 1)

\* if (compl_token[1] == NULL) microrl_insert_text(mrl, " ", 1);
CompletionSpace(m, single) ==
    IF m.fault \/ ~single THEN m ELSE microrl_insert_text(m, <<CH_SPACE>>, 1)

PrintCompleted(m, pos) == IF m.fault THEN m ELSE terminal_print_line(m, pos, FALSE)

\* the insertion of compl_token[0] from its byte last on, last being
\* strlen(tkn_arr[status - 1])
InsertCompletion(m, cand, len, last, single, pos) ==
    IF len - last < 0 THEN Fault(m)
    ELSE PrintCompleted(
             CompletionSpace(
                 microrl_insert_text(m, SubSeq(cand, last + 1, len), len - last),
                 single),
             pos)

\* if (len != 0) { ... } terminal_print_line(mrl, pos, 0);
Complete(m, st, empty, status, cands, len, pos) ==
    IF len = 0 THEN terminal_print_line(m, pos, FALSE)
    ELSE IF status = 0 THEN Fault(m)
    ELSE InsertCompletion(m, cands[1], len,
                          IF empty THEN 0 ELSE Len(CStr(m.cmdline, st.tkn[st.ret])),
                          Len(cands) = 1, pos)

\* if (compl_token[0] != NULL) { ... }: one candidate, or several listed
Candidates(m, st, empty, status, cands) ==
    IF cands = <<>> THEN m
    ELSE IF Len(cands) = 1
    THEN Complete(m, st, empty, status, cands, Len(cands[1]), m.cursor)
    ELSE Complete(print_prompt(terminal_newline(
                      PrintCandidates(terminal_newline(m), cands, 1))),
                  st, empty, status, cands, common_len(cands), 0)

RestoreLine(m, r) == [m EXCEPT !.cmdline = r.cl, !.quotes = r.q]

\* the get_completion call, the empty last token added when empty, and
\* the restore after it
CallCompletion(m, st, empty, status, cands) ==
    Candidates(
        RestoreLine(
            Note(Note(IF m.cursor >= 1 THEN m ELSE Note(m, "oob_read", <<-1, -1>>, <<>>),
                      "get_completion", <<status>>,
                      IF empty THEN Append(Argv(st.cl, st.tkn), <<>>) ELSE Argv(st.cl, st.tkn)),
                 "compl_token", <<Len(cands)>>, cands),
            restore(st.cl, st.q)),
        st, empty, status, cands)

\* if (mrl->cmdline[mrl->cursor - 1] == '\0') tkn_arr[status++] = "";
LastToken(m, st, empty, cands) ==
    CallCompletion(m, st, empty, IF empty THEN st.ret + 1 ELSE st.ret, cands)

\* st is what split returned
Completion(m, st, cands, gb) ==
    IF st.ret < 0 THEN [m EXCEPT !.cmdline = st.cl, !.quotes = st.q]
    ELSE LastToken([m EXCEPT !.cmdline = st.cl, !.quotes = st.q], st,
                   (IF m.cursor >= 1 THEN st.cl[m.cursor - 1] ELSE gb) = 0, cands)

microrl_get_complite(m, cands, gb) ==
    IF ~m.get_completion THEN m
    ELSE Completion(m, split(m.cmdline, m.cursor), cands, gb)

(***************************************************************************)
(* microrl_insert_char.  g are the bytes read outside cmdline (g.past by a *)
(* memmove past its end, g.before at cmdline[-1]), ex is what the execute  *)
(* callback does, cands what the get_completion callback returns.          *)
(***************************************************************************)
\* Companion taking each end-of-line byte for its own companion
CompanionOfItself(c) == c

Companion(c) == IF c = MICRORL_KEY_CR THEN MICRORL_KEY_LF ELSE MICRORL_KEY_CR

\* the echo of the byte just inserted
EchoInserted(m, c) ==
    IF m.fault THEN m
    ELSE IF m.cursor = m.cmdlen
    THEN IF (m.cursor >= m.start_password) /\ (m.echo = MICRORL_ECHO_ONCE)
         THEN Emit(m, <<CH_STAR>>)
         ELSE Emit(m, <<c>>)
    ELSE terminal_print_line(m, m.cursor - 1, FALSE)

\* InsertPrintable without the test that drops the leading space
InsertPrintableAnySpace(m, c) ==
    IF IS_CONTROL_CHAR(c) THEN m
    ELSE IF ~InsertTextOK(m, 1) THEN m
    ELSE EchoInserted(microrl_insert_text(m, <<c>>, 1), c)

\* the default: branch of the switch
InsertPrintable(m, c) ==
    IF ((c = CH_SPACE) /\ (m.cmdlen = 0)) \/ IS_CONTROL_CHAR(c) THEN m
    ELSE IF ~InsertTextOK(m, 1) THEN m
    ELSE EchoInserted(microrl_insert_text(m, <<c>>, 1), c)

\* the reprint after ^U, after Backspace and after ^D
PrintKilled(m) == IF m.fault THEN m ELSE terminal_print_line(m, 0, TRUE)

PrintErased(m) ==
    IF m.fault THEN m
    ELSE IF m.cursor = m.cmdlen THEN terminal_backspace(m)
    ELSE terminal_print_line(m, m.cursor, TRUE)

PrintDeleted(m) == IF m.fault THEN m ELSE terminal_print_line(m, m.cursor, FALSE)

\* Dispatch with ^F not bounded by cmdlen
DispatchUnbounded(m, c, g, cands) ==
    IF c = MICRORL_KEY_HT THEN microrl_get_complite(m, cands, g.before)
    ELSE IF c = MICRORL_KEY_ESC THEN [m EXCEPT !.escape = 1]
    ELSE IF c = MICRORL_KEY_NAK THEN
        PrintKilled(IF m.cursor > 0 THEN microrl_backspace(m, m.cursor, g.past) ELSE m)
    ELSE IF c = MICRORL_KEY_VT THEN
        [Emit(m, <<27, 91, 75>>) EXCEPT !.cmdlen = m.cursor]
    ELSE IF c = MICRORL_KEY_ENQ THEN
        [terminal_move_cursor(m, m.cmdlen - m.cursor) EXCEPT !.cursor = m.cmdlen]
    ELSE IF c = MICRORL_KEY_SOH THEN
        [terminal_move_cursor(m, -m.cursor) EXCEPT !.cursor = 0]
    ELSE IF c = MICRORL_KEY_ACK THEN
        [terminal_move_cursor(m, 1) EXCEPT !.cursor = @ + 1]
    ELSE IF c = MICRORL_KEY_STX THEN
        IF m.cursor # 0
        THEN [terminal_move_cursor(m, -1) EXCEPT !.cursor = @ - 1] ELSE m
    ELSE IF c = MICRORL_KEY_DLE THEN
        IF m.USE_HISTORY THEN hist_search(m, MICRORL_HIST_DIR_UP) ELSE m
    ELSE IF c = MICRORL_KEY_SO THEN
        IF m.USE_HISTORY THEN hist_search(m, MICRORL_HIST_DIR_DOWN) ELSE m
    ELSE IF (c = MICRORL_KEY_DEL) \/ (c = MICRORL_KEY_BS) THEN
        IF m.cursor > 0
        THEN PrintErased(microrl_backspace(m, 1, g.past))
        ELSE m
    ELSE IF c = MICRORL_KEY_EOT THEN
        PrintDeleted(microrl_delete(m))
    ELSE IF c = MICRORL_KEY_DC2 THEN
        terminal_print_line(print_prompt(terminal_newline(m)), 0, FALSE)
    ELSE IF c = MICRORL_KEY_ETX THEN
        IF m.sigint THEN Note(m, "sigint", <<>>, <<>>) ELSE m
    ELSE InsertPrintable(m, c)

\* the switch (ch) of microrl_insert_char
Dispatch(m, c, g, cands) ==
    IF c = MICRORL_KEY_HT THEN microrl_get_complite(m, cands, g.before)
    ELSE IF c = MICRORL_KEY_ESC THEN [m EXCEPT !.escape = 1]
    ELSE IF c = MICRORL_KEY_NAK THEN
        PrintKilled(IF m.cursor > 0 THEN microrl_backspace(m, m.cursor, g.past) ELSE m)
    ELSE IF c = MICRORL_KEY_VT THEN
        [Emit(m, <<27, 91, 75>>) EXCEPT !.cmdlen = m.cursor]
    ELSE IF c = MICRORL_KEY_ENQ THEN
        [terminal_move_cursor(m, m.cmdlen - m.cursor) EXCEPT !.cursor = m.cmdlen]
    ELSE IF c = MICRORL_KEY_SOH THEN
        [terminal_move_cursor(m, -m.cursor) EXCEPT !.cursor = 0]
    ELSE IF c = MICRORL_KEY_ACK THEN
        IF m.cursor < m.cmdlen
        THEN [terminal_move_cursor(m, 1) EXCEPT !.cursor = @ + 1] ELSE m
    ELSE IF c = MICRORL_KEY_STX THEN
        IF m.cursor # 0
        THEN [terminal_move_cursor(m, -1) EXCEPT !.cursor = @ - 1] ELSE m
    ELSE IF c = MICRORL_KEY_DLE THEN
        IF m.USE_HISTORY THEN hist_search(m, MICRORL_HIST_DIR_UP) ELSE m
    ELSE IF c = MICRORL_KEY_SO THEN
        IF m.USE_HISTORY THEN hist_search(m, MICRORL_HIST_DIR_DOWN) ELSE m
    ELSE IF (c = MICRORL_KEY_DEL) \/ (c = MICRORL_KEY_BS) THEN
        IF m.cursor > 0
        THEN PrintErased(microrl_backspace(m, 1, g.past))
        ELSE m
    ELSE IF c = MICRORL_KEY_EOT THEN
        PrintDeleted(microrl_delete(m))
    ELSE IF c = MICRORL_KEY_DC2 THEN
        terminal_print_line(print_prompt(terminal_newline(m)), 0, FALSE)
    ELSE IF c = MICRORL_KEY_ETX THEN
        IF m.sigint THEN Note(m, "sigint", <<>>, <<>>) ELSE m
    ELSE InsertPrintable(m, c)

\* if (escape_process(mrl, ch)) mrl->escape = 0;
EndEscape(r) == IF r.ret = 1 THEN [r.m EXCEPT !.escape = 0] ELSE r.m

microrl_insert_char(m, c, g, ex, cands) ==
    IF m.escape # 0 THEN
        EndEscape(escape_process(m, c))
    ELSE IF (c = MICRORL_KEY_CR) \/ (c = MICRORL_KEY_LF) THEN
        IF m.last_endl = Companion(c)
        THEN Note([m EXCEPT !.last_endl = 0], "endl_coalesced", <<c>>, <<>>)
        ELSE new_line_handler([m EXCEPT !.last_endl = c], ex)
    ELSE Dispatch([m EXCEPT !.last_endl = 0], c, g, cands)

(***************************************************************************)
(* The state machine.  mrl is the microrl_t instance; log is the trace of  *)
(* the last call (sink output and callbacks, in order); last_ch is the     *)
(* byte of the last microrl_insert_char call (-1 before the first, and     *)
(* after any other public call); fault is set once a call has run into     *)
(* undefined behaviour, after which nothing more is modelled.              *)
(***************************************************************************)
VARIABLES mrl, log, fault, last_ch, cfg

vars == <<mrl, log, fault, last_ch, cfg>>

Fields == DOMAIN InitMrl

\* the instance as a call sees it, with an empty trace
Work(r) == [f \in Fields \cup {"log", "fault", "USE_HISTORY"} |->
              IF f = "log" THEN <<>>
              ELSE IF f = "fault" THEN FALSE
              ELSE IF f = "USE_HISTORY" THEN cfg.USE_HISTORY
              ELSE r[f]]

Strip(m) == [f \in Fields |-> m[f]]

\* the values a byte read from outside cmdline may have
GarbageBytes == {0, 97}

\* what the execute callback may do, what the get_completion callback may
\* return ("aa"; "aa" and "ab"; nothing)
NoCandidates == {<<>>}

Completions == {<<>>, <<(<<97, 97>>)>>, <<(<<97, 97>>), (<<97, 98>>)>>}

EscapeBytes == {CH_BRACKET, 65, 66, 67, 68, 55, 56, CH_TILDE, 97, MICRORL_KEY_CR}

Overread(r, c) ==
    IF r.escape = 0 /\ c = MICRORL_KEY_NAK /\ r.cursor > 0
    THEN BackspaceOverread(r, r.cursor) ELSE 0

\* whether the call reads cmdline[-1]
Underread(r, c) ==
    r.escape = 0 /\ c = MICRORL_KEY_HT /\ r.get_completion /\ r.cursor = 0
        /\ split(r.cmdline, r.cursor).ret >= 0

\* the state once the call of microrl_insert_char with byte c returned r
Returned(r, c) ==
    /\ mrl' = IF r.fault THEN mrl ELSE Strip(r)
    /\ log' = r.log
    /\ fault' = r.fault
    /\ last_ch' = c
    /\ UNCHANGED cfg

\* one microrl_insert_char(mrl, c) call; the execute callback does one of
\* exs, the get_completion callback returns one of compl
InsertChar(c, exs, compl) ==
    /\ ~fault
    /\ \E past \in [1 .. Overread(mrl, c) -> GarbageBytes] :
       \E before \in (IF Underread(mrl, c) THEN GarbageBytes ELSE {0}) :
       \E ex \in (IF mrl.escape = 0 /\ c \in {MICRORL_KEY_CR, MICRORL_KEY_LF} /\ mrl.execute
                  THEN exs ELSE {KEEP}) :
       \E cands \in (IF mrl.escape = 0 /\ c = MICRORL_KEY_HT /\ mrl.get_completion
                     THEN compl ELSE NoCandidates) :
          Returned(microrl_insert_char(Work(mrl), c, [past |-> past, before |-> before],
                                       ex, cands), c)

\* the bytes the keyboard sends next: a key of keys, or after ESC a byte
\* of esc
Typed(keys, esc) == IF mrl.escape # 0 THEN esc ELSE keys

Api(m) ==
    /\ ~fault
    /\ mrl' = m
    /\ log' = <<>>
    /\ last_ch' = -1
    /\ UNCHANGED <<fault, cfg>>

SetExecuteCallback == ~mrl.execute /\ Api([mrl EXCEPT !.execute = TRUE])

SetCompleteCallback == ~mrl.get_completion /\ Api([mrl EXCEPT !.get_completion = TRUE])

SetSigintCallback == ~mrl.sigint /\ Api([mrl EXCEPT !.sigint = TRUE])

SetEcho(e) == mrl.echo # e /\ Api(microrl_set_echo(mrl, e))

\* the application changes the echo mode between two bytes
Echoes == {MICRORL_ECHO_ONCE, MICRORL_ECHO_ON, MICRORL_ECHO_OFF}

ChangeEcho == \E e \in Echoes : SetEcho(e)

\* microrlr_t
microrlOK == "microrlOK"

microrlERR == "microrlERR"

\* the state once microrl_insert_text(mrl, text, Len(text)) returned r
TextReturned(r, text) ==
    /\ mrl' = IF r.m.fault THEN mrl ELSE Strip(r.m)
    /\ log' = <<Ev("microrl_insert_text", <<r.ret>>, <<text>>)>>
    /\ fault' = r.m.fault
    /\ last_ch' = -1
    /\ UNCHANGED cfg

\* the call with its return value
InsertTextCall(m, text) ==
    [m   |-> microrl_insert_text(m, text, Len(text)),
     ret |-> IF InsertTextOK(m, Len(text)) THEN microrlOK ELSE microrlERR]

\* one microrl_insert_text call of the application
InsertText(text) == ~fault /\ TextReturned(InsertTextCall(Work(mrl), text), text)

\* the state after microrl_init, in a build with or without the history
InitBuild(use_history) ==
    /\ mrl = InitMrl
    /\ log = <<Ev("print", prompt_default, <<>>)>>
    /\ fault = FALSE
    /\ last_ch = -1
    /\ cfg = [USE_HISTORY |-> use_history]

\* the state after microrl_init and microrl_set_execute_callback
InitExec(use_history) ==
    /\ mrl = [InitMrl EXCEPT !.execute = TRUE]
    /\ log = <<>>
    /\ fault = FALSE
    /\ last_ch = -1
    /\ cfg = [USE_HISTORY |-> use_history]

(***************************************************************************)
(* Specifications.  They run the same machine on different keyboards: 'a'  *)
(* stands for every printable byte that is neither a space nor a quote     *)
(* (they all take the default: branch and mean nothing to split).          *)
(***************************************************************************)

\* Typing and Enter: lines of words and quoted spans, the executor
\* registered at any time.  Build without the history.
LineKeys == {97, CH_SPACE, CH_SQUOTE, CH_DQUOTE, MICRORL_KEY_CR, MICRORL_KEY_LF}

TypeLine == \E c \in Typed(LineKeys, EscapeBytes) : InsertChar(c, {KEEP}, Completions)

Init == InitBuild(FALSE)

Next == TypeLine \/ SetExecuteCallback

Spec == Init /\ [][Next]_vars

\* Editing inside the line.  Build without the history.
EditKeys == {97, CH_SPACE, MICRORL_KEY_BS, MICRORL_KEY_STX, MICRORL_KEY_VT,
             MICRORL_KEY_EOT, MICRORL_KEY_CR}

EditKey == \E c \in Typed(EditKeys, EscapeBytes) : InsertChar(c, {KEEP}, Completions)

SpecEdit == InitExec(FALSE) /\ [][EditKey]_vars

\* Editing a line of quoted spans.  Build without the history.
QuoteKeys == {97, CH_SQUOTE, MICRORL_KEY_STX, MICRORL_KEY_VT, MICRORL_KEY_CR}

QuoteKey == \E c \in Typed(QuoteKeys, EscapeBytes) : InsertChar(c, {KEEP}, Completions)

SpecQuote == InitExec(FALSE) /\ [][QuoteKey]_vars

\* Every kind of key, on lines of 'a'.  Build without the history.
ControlKeys == {MICRORL_KEY_SOH, MICRORL_KEY_STX, MICRORL_KEY_ETX, MICRORL_KEY_EOT,
                MICRORL_KEY_ENQ, MICRORL_KEY_ACK, MICRORL_KEY_BS, MICRORL_KEY_HT,
                MICRORL_KEY_LF, MICRORL_KEY_VT, MICRORL_KEY_CR, MICRORL_KEY_SO,
                MICRORL_KEY_DLE, MICRORL_KEY_DC2, MICRORL_KEY_NAK, MICRORL_KEY_ESC,
                MICRORL_KEY_DEL, 7}

AnyKey == \E c \in Typed({97} \cup ControlKeys, EscapeBytes) : InsertChar(c, {KEEP}, Completions)

SpecKeys == InitExec(FALSE) /\ [][AnyKey]_vars

\* History.  The lines typed are the beginnings of "a b c", whose bytes
\* differ from place to place, so that a byte restored at the wrong place
\* shows; with MICRORL_CFG_CMD_TOKEN_NMB = 3 they are lines of no token
\* (the empty line), of one and two tokens, and one split refuses.  ^U
\* empties the line, so that Enter also comes on an empty line while a
\* history record is selected.  Build with the history.
ScriptLines == {<<97, CH_SPACE, 98, CH_SPACE, 99>>}

Stored(c) == IF c = CH_SPACE THEN 0 ELSE c

\* the bytes that continue the line as one of ScriptLines
ContinuesAs(lines) == {s[mrl.cmdlen + 1] : s \in
                          {t \in lines :
                              /\ mrl.cmdlen >= 0
                              /\ Len(t) > mrl.cmdlen
                              /\ \A k \in 1 .. mrl.cmdlen : Stored(t[k]) = mrl.cmdline[k - 1]}}

ScriptBytes == ContinuesAs(ScriptLines)

HistKeys == {MICRORL_KEY_CR, MICRORL_KEY_LF, MICRORL_KEY_DLE, MICRORL_KEY_SO,
             MICRORL_KEY_NAK, MICRORL_KEY_ESC}

HistKey == \E c \in Typed(ScriptBytes \cup HistKeys, {CH_BRACKET, 65, 66}) : InsertChar(c, {KEEP}, Completions)

SpecHist == InitExec(TRUE) /\ [][HistKey]_vars

\* Completion: Tab on lines of words and quoted spans.
TabKeys == {97, CH_SPACE, CH_SQUOTE, MICRORL_KEY_HT, MICRORL_KEY_STX}

TabKey == \E c \in Typed(TabKeys, EscapeBytes) : InsertChar(c, {KEEP}, Completions)

NextTab == TabKey \/ SetCompleteCallback

SpecTab == InitBuild(FALSE) /\ [][NextTab]_vars

\* Completion on lines of words, the completer registered: it returns
\* nothing, one candidate, or two or three with a common prefix.
WordCompletions == {<<>>, <<(<<97, 97>>)>>, <<(<<97, 97>>), (<<97, 98>>)>>,
                    <<(<<97, 97, 98>>), (<<97, 97, 99>>), (<<97, 97>>)>>}

WordKeys == {97, CH_SPACE, MICRORL_KEY_HT, MICRORL_KEY_STX, MICRORL_KEY_BS}

WordKey == \E c \in Typed(WordKeys, EscapeBytes) : InsertChar(c, {KEEP}, WordCompletions)

InitCompl ==
    /\ mrl = [InitMrl EXCEPT !.get_completion = TRUE]
    /\ log = <<>>
    /\ fault = FALSE
    /\ last_ch = -1
    /\ cfg = [USE_HISTORY |-> FALSE]

SpecCompl == InitCompl /\ [][WordKey]_vars

\* The echo modes, without the history: the application changes the mode
\* between two bytes, and the execute callback may change it too.
EchoKeys == {97, MICRORL_KEY_STX, MICRORL_KEY_BS, MICRORL_KEY_NAK, MICRORL_KEY_EOT,
             MICRORL_KEY_DC2, MICRORL_KEY_CR}

EchoKey == \E c \in Typed(EchoKeys, EscapeBytes) : InsertChar(c, {KEEP} \cup Echoes, Completions)

NextEcho == EchoKey \/ ChangeEcho

SpecEcho == InitExec(FALSE) /\ [][NextEcho]_vars

\* The echo modes with the history: lines of up to three bytes of "a b c".
ShortScriptBytes == IF mrl.cmdlen < 3 THEN ScriptBytes ELSE {}

EchoHistKeys == {MICRORL_KEY_CR, MICRORL_KEY_DLE, MICRORL_KEY_SO, MICRORL_KEY_ESC}

EchoHistKey == \E c \in Typed(ShortScriptBytes \cup EchoHistKeys, {CH_BRACKET, 65, 66}) : InsertChar(c, {KEEP}, Completions)

NextEchoHist == EchoHistKey \/ ChangeEcho

SpecEchoHist == InitExec(TRUE) /\ [][NextEchoHist]_vars

\* Saving with the echo modes: the lines "a b" and one split refuses, "'a",
\* entered and recalled with ^P.
SaveLines == {<<97, CH_SPACE, 98>>, <<CH_SQUOTE, 97>>}

SaveKeys == {MICRORL_KEY_CR, MICRORL_KEY_DLE}

SaveKey == \E c \in ContinuesAs(SaveLines) \cup SaveKeys : InsertChar(c, {KEEP}, Completions)

NextSave == SaveKey \/ ChangeEcho

SpecSave == InitExec(TRUE) /\ [][NextSave]_vars

\* The callbacks registered or not: lines of up to three bytes of "a b c"
\* with Tab, ^C and Enter, the application registering a callback at any
\* time.  Build with the history.
CallbackKeys == {MICRORL_KEY_HT, MICRORL_KEY_ETX, MICRORL_KEY_CR}

CallbackKey ==
    \E c \in ShortScriptBytes \cup CallbackKeys : InsertChar(c, {KEEP}, Completions)

NextCallback ==
    CallbackKey \/ SetExecuteCallback \/ SetCompleteCallback \/ SetSigintCallback

SpecCallback == InitBuild(TRUE) /\ [][NextCallback]_vars

\* Words, quotes and completion before Enter: both callbacks registered,
\* the cursor moved left and bytes deleted.  Build without the history.
SpaceKeys == {97, CH_SPACE, CH_SQUOTE, MICRORL_KEY_HT, MICRORL_KEY_STX, MICRORL_KEY_BS,
              MICRORL_KEY_CR}

SpaceKey == \E c \in SpaceKeys : InsertChar(c, {KEEP}, Completions)

InitSpace ==
    /\ mrl = [InitMrl EXCEPT !.execute = TRUE, !.get_completion = TRUE]
    /\ log = <<>>
    /\ fault = FALSE
    /\ last_ch = -1
    /\ cfg = [USE_HISTORY |-> FALSE]

SpecSpace == InitSpace /\ [][SpaceKey]_vars

\* Killing the end of the line: the lines "ab" and "''b" typed, the cursor
\* moved left, ^K and Enter.  Build with the history.
KillLines == {<<97, 98>>, <<CH_SQUOTE, CH_SQUOTE, 98>>}

KillKeys == {MICRORL_KEY_STX, MICRORL_KEY_VT, MICRORL_KEY_CR}

KillKey == \E c \in ContinuesAs(KillLines) \cup KillKeys : InsertChar(c, {KEEP}, Completions)

SpecKill == InitExec(TRUE) /\ [][KillKey]_vars

\* Moving the cursor, by the control keys and by the escape sequences, on
\* the beginnings of "a b c", with Enter.  Build with the history.
MoveKeys == {MICRORL_KEY_SOH, MICRORL_KEY_STX, MICRORL_KEY_ENQ, MICRORL_KEY_ACK,
             MICRORL_KEY_ESC, MICRORL_KEY_CR}

MoveEscapeBytes == {CH_BRACKET, 67, 68, 55, 56, CH_TILDE}

MoveKey == \E c \in Typed(ShortScriptBytes \cup MoveKeys, MoveEscapeBytes) : InsertChar(c, {KEEP}, Completions)

SpecMove == InitExec(TRUE) /\ [][MoveKey]_vars

\* The bytes that are ignored or only repaint: a space on the empty line,
\* control bytes below 0x20 that no case of the switch names (BEL and US
\* on the keyboard), ^C with and without a sigint callback, ^R; typed
\* between the bytes of "a b c", ^B and Enter.  Build with the history.
UnassignedKeys == {c \in 0 .. 31 : c \notin ControlKeys \ {7}}

LeadingSpace == IF mrl.cmdlen = 0 THEN {CH_SPACE} ELSE {}

IgnoredKeys == {MICRORL_KEY_ETX, MICRORL_KEY_DC2, MICRORL_KEY_STX, MICRORL_KEY_CR, 7, 31}

IgnoredKey == \E c \in ShortScriptBytes \cup LeadingSpace \cup IgnoredKeys : InsertChar(c, {KEEP}, Completions)

NextIgnored == IgnoredKey \/ SetSigintCallback

SpecIgnored == InitExec(TRUE) /\ [][NextIgnored]_vars

\* hist_save_line called on the ring with lines of every length from 1 to
\* MICRORL_CFG_RING_HISTORY_LEN - 1, the lengths that new_line_handler
\* passes when the command line is longer than the ring.  The line of n
\* bytes is "abc..." or "ABC...".
RingLines == {[k \in 1 .. n |-> b + k] : n \in 1 .. (MICRORL_CFG_RING_HISTORY_LEN - 1),
                                          b \in {64, 96}}

SaveRing ==
    \E line \in RingLines :
        /\ ~fault
        /\ mrl' = [mrl EXCEPT !.ring_hist = hist_save_line(@, line, Len(line))]
        /\ log' = <<Ev("hist_save_line", line, <<>>)>>
        /\ last_ch' = -1
        /\ UNCHANGED <<fault, cfg>>

SpecRing == InitExec(TRUE) /\ [][SaveRing]_vars

\* terminal_print_line on lines of up to PrintLineMax bytes, longer than
\* str, from a start position of one or two digits, with and without the
\* reset, the cursor at the end of the line or left of it, and str as the
\* stack holds it.  The line of n bytes is "\"#$..." with a 0 at every
\* third place.
PrintLineMax == 42

PrintLines == {[k \in 1 .. n |-> IF k % 3 = 0 THEN 0 ELSE 33 + k] : n \in 0 .. PrintLineMax}

PrintHeads == {<<>>} \cup {<<13>> \o generate_move_cursor(MICRORL_CFG_PROMPT_LEN + pos) :
                              pos \in {0, 5}}

PrintTails == {<<27, 91, 75>> \o generate_move_cursor(offset) : offset \in {0, -3}}

InitPrint ==
    /\ mrl = InitMrl
    /\ \E line \in PrintLines, head \in PrintHeads, tail \in PrintTails,
          z \in -1 .. MICRORL_CFG_PRINT_BUFFER_LEN :
          log = <<Ev("terminal_print_line", line, <<head, tail, <<z>>>>)>>
    /\ fault = FALSE
    /\ last_ch = -1
    /\ cfg = [USE_HISTORY |-> FALSE]

\* the prints of b.out, in order
Printed(b) == [k \in 1 .. Len(b.out) |-> Ev("print", b.out[k], <<>>)]

PrintsLine(b) ==
    /\ log' = log \o Printed(b)
    /\ fault' = b.over
    /\ UNCHANGED <<mrl, last_ch, cfg>>

PrintLine ==
    /\ ~fault
    /\ Len(log) = 1
    /\ log[1].op = "terminal_print_line"
    /\ PrintsLine(PrintBatch(log[1].argv[1], log[1].s, log[1].argv[2], log[1].argv[3][1]))

SpecPrint == InitPrint /\ [][PrintLine]_vars

\* microrl_insert_text called by the application, between typed bytes and
\* cursor moves, with the echo ON or ONCE.
TextKeys == {97, CH_SPACE, MICRORL_KEY_STX, MICRORL_KEY_EOT, MICRORL_KEY_CR}

Texts == {<<98>>, <<98, CH_SPACE, 99>>, <<CH_SPACE, 98, 99, 100>>}

TextKey == \E c \in Typed(TextKeys, EscapeBytes) : InsertChar(c, {KEEP}, Completions)

TextCall == \E text \in Texts : InsertText(text)

EchoOnce == SetEcho(MICRORL_ECHO_ONCE)

NextText == TextKey \/ TextCall \/ EchoOnce

SpecText == InitBuild(FALSE) /\ [][NextText]_vars

(***************************************************************************)
(* Reading the trace of the last call.                                     *)
(***************************************************************************)
Events(l, op) == SelectSeq(l, LAMBDA e : e.op = op)

\* new_line_handler ran in the last call: a non-coalesced Enter returned
HandlerRan == Events(log, "split") # <<>>

\* the line cmdline[0..cmdlen) that Enter was pressed on
EnteredLine == Events(log, "split")[1].argv[1]

\* what split returned
SplitStatus == Events(log, "split")[1].s[1]

Executed == Events(log, "execute")

NoQuoteChars(line) == \A k \in 1 .. Len(line) : line[k] \notin {CH_SQUOTE, CH_DQUOTE}

Min(S) == CHOOSE x \in S : \A y \in S : x <= y

\* the maximal runs of non-zero bytes of line, from position p on
RECURSIVE Runs(_, _)
Runs(line, p) ==
    IF p > Len(line) THEN <<>>
    ELSE IF line[p] = 0 THEN Runs(line, p + 1)
    ELSE LET stops == {k \in p .. Len(line) : line[k] = 0}
             e == IF stops = {} THEN Len(line) + 1 ELSE Min(stops)
         IN  <<SubSeq(line, p, e - 1)>> \o Runs(line, e)

\* C1: after each microrl_insert_char call, 0 <= cursor <= cmdlen <
\* MICRORL_CFG_CMDLINE_LEN.  (Refuted: ^D at the end of a line.)
C1_CursorWithinLine ==
    /\ 0 <= mrl.cursor
    /\ mrl.cursor <= mrl.cmdlen
    /\ mrl.cmdlen < MICRORL_CFG_CMDLINE_LEN

\* C1 fails here: ^D with the cursor at the end of the line has taken one
\* from cmdlen and left the cursor behind it
C1_DeleteAtEndOfLine ==
    /\ last_ch = MICRORL_KEY_EOT
    /\ ~fault
    /\ mrl.cmdlen >= 0
    /\ mrl.cursor = mrl.cmdlen + 1

\* C2: after each call, the terminator sits at cmdlen: cmdline[cmdlen] = 0.
\* (Refuted: ^K with the cursor inside the line, ^D at the end of a line.)
C2_TerminatorAtCmdlen ==
    /\ mrl.cmdlen \in CmdIdx
    /\ mrl.cmdline[mrl.cmdlen] = 0

\* C2 fails here: ^K inside the line has set cmdlen to the cursor and left
\* the byte there
C2_KillLeavesByte ==
    /\ last_ch = MICRORL_KEY_VT
    /\ mrl.cmdlen \in CmdIdx
    /\ mrl.cursor = mrl.cmdlen
    /\ mrl.cmdline[mrl.cmdlen] = 97

\* C3: outside an escape sequence, an end-of-line byte that follows its
\* companion's run of new_line_handler does nothing but zero last_endl;
\* every other end-of-line byte (the same byte again, or one that follows
\* any other byte) runs the handler, once, with at most one execute call.
C3_EndlPairRunsHandlerOnce ==
    [][ (/\ ~fault
         /\ mrl.escape = 0
         /\ last_ch' \in {MICRORL_KEY_CR, MICRORL_KEY_LF})
        => IF {last_ch, last_ch'} = {MICRORL_KEY_CR, MICRORL_KEY_LF} /\ HandlerRan
           THEN /\ Events(log', "split") = <<>>
                /\ Events(log', "execute") = <<>>
                /\ Events(log', "print") = <<>>
                /\ mrl' = [mrl EXCEPT !.last_endl = 0]
                /\ ~fault'
           ELSE /\ Len(Events(log', "split")) = 1
                /\ Len(Events(log', "execute")) <= 1
                /\ Events(log', "endl_coalesced") = <<>>
                /\ mrl'.last_endl = last_ch'
                /\ ~fault'
      ]_vars

\* C3 happens: the second byte of a CR LF or LF CR pair has been swallowed
C3_Coalesced ==
    /\ last_ch \in {MICRORL_KEY_CR, MICRORL_KEY_LF}
    /\ log = <<Ev("endl_coalesced", <<last_ch>>, <<>>)>>
    /\ mrl.last_endl = 0

\* C4: a non-coalesced Enter on a line without quote characters calls
\* execute exactly once iff an executor is registered and the line has 1 to
\* MICRORL_CFG_CMD_TOKEN_NMB tokens, with argc and argv the maximal runs of
\* non-zero bytes of the line; otherwise it does not call it.  (Refuted: a
\* line of exactly MICRORL_CFG_CMD_TOKEN_NMB tokens.)
C4_ExecuteIffTokens ==
    (HandlerRan /\ NoQuoteChars(EnteredLine)) =>
        LET runs == Runs(EnteredLine, 1)
        IN  /\ Len(Executed) <= 1
            /\ (Len(Executed) = 1) <=>
                   (mrl.execute /\ Len(runs) \in 1 .. MICRORL_CFG_CMD_TOKEN_NMB)
            /\ (Len(Executed) = 1) =>
                   (Executed[1].s = <<Len(runs)>> /\ Executed[1].argv = runs)

\* C4 fails here: Enter on "a a a" with an executor registered, refused
C4_ThreeWordsRefused ==
    /\ HandlerRan
    /\ mrl.execute
    /\ EnteredLine = <<97, 0, 97, 0, 97>>
    /\ SplitStatus = -1
    /\ Executed = <<>>

\* C5: after every non-coalesced Enter, whatever split returned, cmdline is
\* all zero bytes, cmdlen = 0, cursor = 0 and ring_hist.cur = 0.
C5_LineResetAfterEnter ==
    HandlerRan =>
        /\ ~fault
        /\ mrl.cmdline = ZeroLine
        /\ mrl.cmdlen = 0
        /\ mrl.cursor = 0
        /\ mrl.ring_hist.cur = 0

\* C5 happens: Enter on a line that was saved to the history and that split
\* then refused
C5_FailedEnterAfterSave ==
    /\ HandlerRan
    /\ SplitStatus = -1
    /\ Events(log, "hist_save_line") # <<>>
    /\ mrl.ring_hist.ring_buf[mrl.ring_hist.begin] # 0

\* the instance as microrl_init and the registrations left it, before any
\* byte of a line
FreshLine == [InitMrl EXCEPT !.execute = mrl.execute,
                             !.get_completion = mrl.get_completion,
                             !.sigint = mrl.sigint,
                             !.echo = mrl.echo,
                             !.last_endl = mrl.last_endl,
                             !.ring_hist = mrl.ring_hist]

NoGarbage == [past |-> <<>>, before |-> 0]

\* byte c is processed as on a fresh line: same trace, same line
ProcessedNormally(c) ==
    LET a == microrl_insert_char(Work(mrl), c, NoGarbage, KEEP, <<>>)
        b == microrl_insert_char(Work(FreshLine), c, NoGarbage, KEEP, <<>>)
    IN  /\ a.log = b.log
        /\ a.fault = b.fault
        /\ a.cmdline = b.cmdline
        /\ a.cmdlen = b.cmdlen
        /\ a.cursor = b.cursor
        /\ a.escape = b.escape
        /\ a.last_endl = b.last_endl

\* C6: when split fails on Enter, the sink gets the new line, the error
\* message followed by ENDL, then the prompt, and nothing else; execute is
\* not called; the line is reset; and the next byte is processed as on a
\* fresh line.
C6_ErrorPath ==
    (HandlerRan /\ SplitStatus = -1) =>
        /\ ~fault
        /\ Executed = <<>>
        /\ Events(log, "print") = <<Ev("print", MICRORL_CFG_END_LINE, <<>>),
                                    Ev("print", ErrorMsg, <<>>),
                                    Ev("print", MICRORL_CFG_END_LINE, <<>>),
                                    Ev("print", prompt_default, <<>>)>>
        /\ mrl.cmdline = ZeroLine
        /\ mrl.cmdlen = 0
        /\ mrl.cursor = 0
        /\ mrl.escape = 0
        /\ \A c \in LineKeys : ProcessedNormally(c)

\* C6 happens: Enter on a line with an unterminated quote
C6_UnterminatedQuoteEntered ==
    /\ HandlerRan
    /\ SplitStatus = -1
    /\ EnteredLine = <<CH_SQUOTE, 97, 0, 97>>
    /\ mrl.execute

\* C7: Enter on a line (without quote characters) of 1 to
\* MICRORL_CFG_CMD_TOKEN_NMB tokens, that number included, passes all its
\* tokens to execute; split fails only on more tokens than that.
\* (Refuted: exactly MICRORL_CFG_CMD_TOKEN_NMB tokens are refused.)
C7_TokenCapInclusive ==
    (HandlerRan /\ NoQuoteChars(EnteredLine) /\ mrl.execute) =>
        LET runs == Runs(EnteredLine, 1)
        IN  /\ (Len(runs) \in 1 .. MICRORL_CFG_CMD_TOKEN_NMB) =>
                   Executed = <<Ev("execute", <<Len(runs)>>, runs)>>
            /\ (SplitStatus = -1) => (Len(runs) > MICRORL_CFG_CMD_TOKEN_NMB)

\* C7 fails here: Enter on a line of exactly MICRORL_CFG_CMD_TOKEN_NMB
\* words, refused
C7_CapTokensRefused ==
    /\ HandlerRan
    /\ mrl.execute
    /\ NoQuoteChars(EnteredLine)
    /\ Len(Runs(EnteredLine, 1)) = MICRORL_CFG_CMD_TOKEN_NMB
    /\ SplitStatus = -1

\* The tokens of a line as the specification describes them: words, and
\* spans between a quote at the start of a token and the same quote
\* followed by a separator or the end of the line, the separators inside a
\* span being spaces; ok is FALSE on an unterminated quote, a closing quote
\* followed by another byte, or more than MICRORL_CFG_QUOTED_TOKEN_NMB spans.
RECURSIVE QuotedTokens(_, _, _, _)
QuotedTokens(line, p, acc, nq) ==
    IF p > Len(line) THEN [ok |-> TRUE, tokens |-> acc]
    ELSE IF line[p] = 0 THEN QuotedTokens(line, p + 1, acc, nq)
    ELSE IF line[p] \in {CH_SQUOTE, CH_DQUOTE} THEN
        LET closers == {k \in (p + 1) .. Len(line) : line[k] = line[p]}
        IN  IF closers = {} THEN [ok |-> FALSE, tokens |-> acc]
            ELSE LET k == Min(closers)
                 IN  IF (k < Len(line) /\ line[k + 1] # 0)
                          \/ (nq + 1 > MICRORL_CFG_QUOTED_TOKEN_NMB)
                     THEN [ok |-> FALSE, tokens |-> acc]
                     ELSE QuotedTokens(line, k + 1,
                              Append(acc, [j \in 1 .. (k - p - 1) |-> Shown(line[p + j])]),
                              nq + 1)
    ELSE LET stops == {k \in p .. Len(line) : line[k] = 0}
             e == IF stops = {} THEN Len(line) + 1 ELSE Min(stops)
         IN  QuotedTokens(line, e, Append(acc, SubSeq(line, p, e - 1)), nq)

\* C8: on Enter, a quoted span is passed to execute as one token made of
\* the bytes between the quotes, spaces inside it as 0x20; split fails on a
\* closing quote followed by another byte, on an unterminated quote and on
\* more than MICRORL_CFG_QUOTED_TOKEN_NMB spans.  (Refuted: the byte after a
\* closing quote at the end of the line may be a stale one, left by ^K.)
C8_QuotedSpans ==
    (HandlerRan /\ mrl.execute /\ ~NoQuoteChars(EnteredLine)) =>
        LET r == QuotedTokens(EnteredLine, 1, <<>>, 0)
        IN  IF r.ok
            THEN (Len(r.tokens) \in 1 .. MICRORL_CFG_CMD_TOKEN_NMB) =>
                     Executed = <<Ev("execute", <<Len(r.tokens)>>, r.tokens)>>
            ELSE SplitStatus = -1 /\ Executed = <<>>

\* C8 fails here: Enter on the line '' (an empty quoted span), refused
\* because of the byte ^K left behind the closing quote
C8_EmptySpanRefused ==
    /\ HandlerRan
    /\ mrl.execute
    /\ EnteredLine = <<CH_SQUOTE, CH_SQUOTE>>
    /\ SplitStatus = -1

\* cmdline after split and restore with the given limit (split restores
\* itself where it fails)
RoundTrip(limit) ==
    LET st == split(mrl.cmdline, limit)
    IN  IF st.ret = -1 THEN st.cl ELSE restore(st.cl, st.q).cl

\* C9: split followed by restore, with the limit of Enter (cmdlen) and the
\* limit of Tab (cursor), leaves cmdline as it was, byte for byte.
\* (Refuted: a separator inside a quoted span comes back as 0x20.)
C9_RoundTrip ==
    (~fault /\ mrl.cursor >= 0 /\ mrl.cmdlen >= 0) =>
        /\ RoundTrip(mrl.cmdlen) = mrl.cmdline
        /\ RoundTrip(mrl.cursor) = mrl.cmdline

\* C9 fails here: Tab has left a 0x20 in cmdline, where the separators are
\* kept as 0x00
C9_TabLeavesSpace ==
    /\ last_ch = MICRORL_KEY_HT
    /\ ~fault
    /\ Events(log, "get_completion") # <<>>
    /\ mrl.cmdlen \in CmdIdx
    /\ \E i \in 0 .. (mrl.cmdlen - 1) : mrl.cmdline[i] = CH_SPACE

\* C10: a ^P that follows the Enter that saved a line of 1 to
\* MICRORL_CFG_RING_HISTORY_LEN - 2 bytes brings that line back, byte for
\* byte, with cursor = cmdlen = its length.
C10_SaveThenUp ==
    [][ (/\ ~fault
         /\ mrl.escape = 0
         /\ last_ch' = MICRORL_KEY_DLE
         /\ Events(log, "hist_save_line") # <<>>
         /\ Len(Events(log, "hist_save_line")[1].s) \in
                1 .. (MICRORL_CFG_RING_HISTORY_LEN - 2))
        => LET saved == Events(log, "hist_save_line")[1].s
           IN  /\ ~fault'
               /\ mrl'.cmdlen = Len(saved)
               /\ mrl'.cursor = Len(saved)
               /\ Bytes(mrl'.cmdline, 0, mrl'.cmdlen) = saved
      ]_vars

\* C10 happens: ^P has brought back the newest record, one whose payload
\* wraps around the end of the ring
C10_WrappedRecordRestored ==
    /\ last_ch = MICRORL_KEY_DLE
    /\ mrl.ring_hist.cur = 1
    /\ mrl.cmdlen > 1
    /\ mrl.cursor = mrl.cmdlen
    /\ LET h == mrl.ring_hist
           header == (h.end + MICRORL_CFG_RING_HISTORY_LEN - mrl.cmdlen - 1)
                         % MICRORL_CFG_RING_HISTORY_LEN
       IN  /\ h.ring_buf[header] = mrl.cmdlen
           /\ header + mrl.cmdlen >= MICRORL_CFG_RING_HISTORY_LEN
           /\ h.begin # header
           /\ \A k \in 0 .. (mrl.cmdlen - 1) : mrl.cmdline[k] = RecordByte(h, header, k)

(***************************************************************************)
(* The history ring as a list of entries: each entry is a length byte      *)
(* followed by that many payload bytes, entries follow one another from    *)
(* begin (indices modulo MICRORL_CFG_RING_HISTORY_LEN) and end is the      *)
(* index after the last one.                                               *)
(***************************************************************************)
RingAt(h, p) == h.ring_buf[p % MICRORL_CFG_RING_HISTORY_LEN]

\* the bytes the entries from header p on occupy, -1 if the walk meets a
\* zero length byte before end or takes more than the ring has
RECURSIVE WalkBytes(_, _, _)
WalkBytes(h, p, used) ==
    IF p = h.end THEN used
    ELSE IF h.ring_buf[p] = 0 THEN -1
    ELSE IF used + h.ring_buf[p] + 1 > MICRORL_CFG_RING_HISTORY_LEN - 1 THEN -1
    ELSE WalkBytes(h, (p + h.ring_buf[p] + 1) % MICRORL_CFG_RING_HISTORY_LEN,
                   used + h.ring_buf[p] + 1)

RingWellFormed(h) == WalkBytes(h, h.begin, 0) >= 0

\* the headers of the entries of a well-formed ring from p on, and end
RECURSIVE RingHeaders(_, _)
RingHeaders(h, p) ==
    IF p = h.end THEN {p}
    ELSE {p} \cup RingHeaders(h, (p + h.ring_buf[p] + 1) % MICRORL_CFG_RING_HISTORY_LEN)

\* the entries of a well-formed ring from p on, oldest first
RECURSIVE RingEntries(_, _)
RingEntries(h, p) ==
    IF p = h.end THEN <<>>
    ELSE <<[k \in 1 .. h.ring_buf[p] |-> RingAt(h, p + k)]>>
         \o RingEntries(h, (p + h.ring_buf[p] + 1) % MICRORL_CFG_RING_HISTORY_LEN)

HistEntries == IF RingWellFormed(mrl.ring_hist)
               THEN RingEntries(mrl.ring_hist, mrl.ring_hist.begin)
               ELSE <<>>

\* the next call is an UP key (^P, or the last byte of ESC [ A), a DOWN key
UpKey(c) ==
    \/ mrl.escape = 0 /\ c = MICRORL_KEY_DLE
    \/ mrl.escape # 0 /\ mrl.escape_seq = MICRORL_ESC_BRACKET /\ c = 65

DownKey(c) ==
    \/ mrl.escape = 0 /\ c = MICRORL_KEY_SO
    \/ mrl.escape # 0 /\ mrl.escape_seq = MICRORL_ESC_BRACKET /\ c = 66

\* the line presented is entry e, the cursor at its end
Presents(m, e) ==
    /\ m.cmdlen = Len(e)
    /\ m.cursor = Len(e)
    /\ Bytes(m.cmdline, 0, Len(e)) = e

C12_RingWellFormed ==
    [][ (~fault /\ RingWellFormed(mrl.ring_hist)) =>
           /\ RingWellFormed(mrl'.ring_hist)
           /\ mrl'.ring_hist.begin \in RingHeaders(mrl.ring_hist, mrl.ring_hist.begin)
      ]_vars

\* C12 happens: a save has evicted the oldest entries and the ring wraps
C12_EvictedAndWrapped ==
    /\ Events(log, "hist_save_line") # <<>>
    /\ mrl.ring_hist.begin # 0
    /\ mrl.ring_hist.end < mrl.ring_hist.begin
    /\ Len(HistEntries) >= 2

\* C13: the byte at end is zero
C13_EndMarkZero == mrl.ring_hist.ring_buf[mrl.ring_hist.end] = 0

\* C13 happens: navigation in a ring whose end has wrapped onto bytes that
\* once held an entry
C13_NavigatedWrappedRing ==
    /\ last_ch = 65
    /\ mrl.ring_hist.cur = 2
    /\ mrl.ring_hist.end < mrl.ring_hist.begin
    /\ mrl.ring_hist.ring_buf[mrl.ring_hist.end] = 0
    /\ mrl.ring_hist.ring_buf[(mrl.ring_hist.end + 1) % MICRORL_CFG_RING_HISTORY_LEN] # 0

(***************************************************************************)
(* Echo modes.                                                             *)
(***************************************************************************)
\* the bytes the sink received during the last call, in order
SinkOf(l) == Concat([k \in 1 .. Len(Events(l, "print")) |-> Events(l, "print")[k].s])

ZeroGarbage == [past |-> [k \in 1 .. MICRORL_CFG_CMDLINE_LEN |-> 0], before |-> 0]

\* another password of the same shape: 'x' for every byte typed
OtherByte(c) == IF c = 97 THEN 120 ELSE c

OtherPassword ==
    [mrl EXCEPT !.cmdline = [i \in CmdIdx |->
        IF mrl.start_password >= 0 /\ i >= mrl.start_password /\ i < mrl.cmdlen
        THEN OtherByte(mrl.cmdline[i]) ELSE mrl.cmdline[i]]]

\* C14: while echo is ONCE, what the sink receives does not depend on the
\* bytes typed since the password began: the next call emits the same bytes
\* whether the password typed so far (and the byte typed now) is made of
\* 'a' or of 'x'.  (Refuted: every repaint prints the line in clear.)
C14_PasswordNeverClear ==
    (~fault /\ mrl.echo = MICRORL_ECHO_ONCE /\ mrl.escape = 0) =>
        \A c \in EchoKeys :
            SinkOf(microrl_insert_char(Work(mrl), c, ZeroGarbage, KEEP, <<>>).log)
          = SinkOf(microrl_insert_char(Work(OtherPassword), OtherByte(c), ZeroGarbage,
                                       KEEP, <<>>).log)

\* C14 fails here: ^R has reprinted, in clear, a password typed with echo
\* ONCE
C14_PasswordReprinted ==
    /\ mrl.echo = MICRORL_ECHO_ONCE
    /\ mrl.start_password = 0
    /\ mrl.cmdlen > 0
    /\ last_ch = MICRORL_KEY_DC2
    /\ \E k \in 1 .. Len(SinkOf(log)) : SinkOf(log)[k] = 97

\* C15: with echo OFF or ONCE no UP or DOWN key changes cmdline, cmdlen,
\* cursor or ring_hist.cur.  (Refuted: ^P and ^N.)
C15_NavigationDisabled ==
    [][ (/\ ~fault
         /\ mrl.echo # MICRORL_ECHO_ON
         /\ UpKey(last_ch') \/ DownKey(last_ch'))
        => /\ mrl'.cmdline = mrl.cmdline
           /\ mrl'.cmdlen = mrl.cmdlen
           /\ mrl'.cursor = mrl.cursor
           /\ mrl'.ring_hist.cur = mrl.ring_hist.cur
      ]_vars

\* C15 fails here: ^P with echo OFF has brought a history entry into the
\* line
C15_UpWhileEchoOff ==
    /\ mrl.echo = MICRORL_ECHO_OFF
    /\ last_ch = MICRORL_KEY_DLE
    /\ mrl.ring_hist.cur = 1
    /\ HistEntries # <<>>
    /\ Presents(mrl, HistEntries[Len(HistEntries)])

\* C16: a non-coalesced Enter on a line of cmdlen bytes (that fit a record:
\* cmdlen <= MICRORL_CFG_RING_HISTORY_LEN - 2) makes the line the newest
\* entry of the ring, older entries kept or evicted from the oldest end, if
\* cmdlen > 0 and echo is ON, whatever split returns; otherwise the ring is
\* left as it was.
C16_SavedIffEchoOn ==
    [][ (~fault /\ RingWellFormed(mrl.ring_hist) /\ HandlerRan') =>
        LET line   == Bytes(mrl.cmdline, 0, mrl.cmdlen)
            before == HistEntries
            after  == HistEntries'
        IN  IF (mrl.cmdlen > 0) /\ (mrl.echo = MICRORL_ECHO_ON)
               /\ (mrl.cmdlen <= MICRORL_CFG_RING_HISTORY_LEN - 2)
            THEN /\ RingWellFormed(mrl'.ring_hist)
                 /\ after # <<>>
                 /\ after[Len(after)] = line
                 /\ \E d \in 0 .. Len(before) :
                        SubSeq(after, 1, Len(after) - 1) = SubSeq(before, d + 1, Len(before))
            ELSE /\ mrl'.ring_hist.ring_buf = mrl.ring_hist.ring_buf
                 /\ mrl'.ring_hist.begin = mrl.ring_hist.begin
                 /\ mrl'.ring_hist.end = mrl.ring_hist.end
      ]_vars

\* C16 happens: Enter on a line that split refused and that the ring does
\* not hold, entered with the echo not ON, other lines being stored
C16_UnsavedLineEntered ==
    /\ HandlerRan
    /\ SplitStatus = -1
    /\ Events(log, "hist_save_line") = <<>>
    /\ HistEntries # <<>>
    /\ \A k \in 1 .. Len(HistEntries) : HistEntries[k] # EnteredLine

\* C17: a non-coalesced Enter leaves the echo mode the execute callback set
\* during it, if it set one; otherwise ON if the mode was ONCE and the mode
\* as it was if it was ON or OFF.  Enter with echo ONCE leaves
\* start_password = -1.
C17_OnceEndsWithLine ==
    [][ (~fault /\ HandlerRan') =>
        LET set == Events(log', "microrl_set_echo")
        IN  /\ ~fault'
            /\ mrl'.echo = IF set # <<>> THEN set[1].s[1]
                           ELSE IF mrl.echo = MICRORL_ECHO_ONCE THEN MICRORL_ECHO_ON
                           ELSE mrl.echo
            /\ (mrl.echo = MICRORL_ECHO_ONCE) => (mrl'.start_password = -1)
      ]_vars

\* C17 happens: the execute callback asked for a password during Enter and
\* the mode is ONCE for the next line
C17_ExecutorAsksPassword ==
    /\ HandlerRan
    /\ Executed # <<>>
    /\ Events(log, "microrl_set_echo") = <<Ev("microrl_set_echo", <<MICRORL_ECHO_ONCE>>, <<>>)>>
    /\ mrl.echo = MICRORL_ECHO_ONCE
    /\ mrl.start_password = -1

\* C18: with echo OFF, a call other than Enter sends no byte of the line
\* to the sink.  (Refuted: a byte typed at the end of the line.)
C18_OffRendersNothing ==
    (~fault /\ mrl.echo = MICRORL_ECHO_OFF
            /\ last_ch \notin {-1, MICRORL_KEY_CR, MICRORL_KEY_LF}) =>
        \A k \in 1 .. Len(SinkOf(log)) : SinkOf(log)[k] # 97

\* C18 fails here: the byte typed at the end of the line with echo OFF has
\* been sent to the sink
C18_TypedByteEchoed ==
    /\ mrl.echo = MICRORL_ECHO_OFF
    /\ last_ch = 97
    /\ log = <<Ev("print", <<97>>, <<>>)>>

(***************************************************************************)
(* microrl_insert_text.                                                    *)
(***************************************************************************)
TextCalled == Events(log, "microrl_insert_text")

SameLine(a, b) ==
    /\ a.cmdline = b.cmdline
    /\ a.cmdlen = b.cmdlen
    /\ a.cursor = b.cursor
    /\ a.start_password = b.start_password

\* microrl_insert_text with cmdlen + len >= MICRORL_CFG_CMDLINE_LEN returns
\* microrlERR and leaves the line as it was
TextRefused ==
    (TextCalled' # <<>>
       /\ mrl.cmdlen + Len(TextCalled'[1].argv[1]) >= MICRORL_CFG_CMDLINE_LEN)
    => /\ TextCalled'[1].s = <<microrlERR>>
       /\ SameLine(mrl', mrl)
       /\ ~fault'

\* a printable byte is typed on a line of MICRORL_CFG_CMDLINE_LEN - 1 bytes
TypedOnFullLine ==
    /\ mrl.escape = 0
    /\ last_ch' \in {97, CH_SPACE}
    /\ mrl.cmdlen = MICRORL_CFG_CMDLINE_LEN - 1

\* C19 as stated: microrl_insert_text with cmdlen + len >=
\* MICRORL_CFG_CMDLINE_LEN returns microrlERR and leaves cmdline, cmdlen,
\* cursor and start_password as they were; a printable byte typed on a full
\* line changes no field of the editor and sends nothing to the sink.
\* (Refuted: the dropped byte clears last_endl.)
C19_OverflowChangesNothing ==
    [][ ~fault =>
        /\ TextRefused
        /\ TypedOnFullLine => (mrl' = mrl /\ log' = <<>> /\ ~fault')
      ]_vars

\* C19, amended: ... a printable byte typed on a full line changes no field
\* of the editor other than last_endl, which it clears, and sends nothing
\* to the sink.
C19_Overflow ==
    [][ ~fault =>
        /\ TextRefused
        /\ TypedOnFullLine =>
              (mrl' = [mrl EXCEPT !.last_endl = 0] /\ log' = <<>> /\ ~fault')
      ]_vars

\* C19 happens: a text has been refused on a full line, right after Enter
\* and texts that filled the line, last_endl still holding the CR
C19_TextRefused ==
    /\ TextCalled # <<>>
    /\ TextCalled[1].s = <<microrlERR>>
    /\ mrl.cmdlen = MICRORL_CFG_CMDLINE_LEN - 1
    /\ mrl.cursor = mrl.cmdlen
    /\ mrl.last_endl = MICRORL_KEY_CR

\* C20: microrl_insert_text of len bytes with cmdlen + len <
\* MICRORL_CFG_CMDLINE_LEN and the cursor at c returns microrlOK, keeps
\* cmdline[0..c), stores the text at c..c+len with 0x00 for every 0x20,
\* moves the old cmdline[c..cmdlen) to c+len, and adds len to cursor and
\* cmdlen.  (Refuted where ^D has left the cursor behind the end of the
\* line.)
C20_InsertText ==
    [][ (/\ ~fault
         /\ TextCalled' # <<>>
         /\ mrl.cmdlen + Len(TextCalled'[1].argv[1]) < MICRORL_CFG_CMDLINE_LEN)
        => LET text == TextCalled'[1].argv[1]
               len  == Len(text)
               c    == mrl.cursor
           IN  /\ ~fault'
               /\ TextCalled'[1].s = <<microrlOK>>
               /\ mrl'.cursor = c + len
               /\ mrl'.cmdlen = mrl.cmdlen + len
               /\ \A i \in 0 .. (c - 1) : mrl'.cmdline[i] = mrl.cmdline[i]
               /\ \A i \in 0 .. (len - 1) :
                      mrl'.cmdline[c + i] = IF text[i + 1] = 32 THEN 0 ELSE text[i + 1]
               /\ \A i \in c .. (mrl.cmdlen - 1) : mrl'.cmdline[i + len] = mrl.cmdline[i]
      ]_vars

\* C20 holds here: a text with a space in it has been inserted in the
\* middle of the line
C20_TextInsertedMidLine ==
    /\ ~fault
    /\ TextCalled # <<>>
    /\ TextCalled[1].s = <<microrlOK>>
    /\ TextCalled[1].argv = <<(<<98, CH_SPACE, 99>>)>>
    /\ mrl.cursor > 3
    /\ mrl.cursor < mrl.cmdlen
    /\ mrl.cmdline[mrl.cursor - 2] = 0

\* C20 fails here: microrl_insert_text was called with the cursor behind
\* the end of the line, where ^D at the end of the line had left it
C20_TextBehindEnd ==
    /\ fault
    /\ TextCalled # <<>>
    /\ TextCalled[1].s = <<microrlOK>>
    /\ mrl.cursor > mrl.cmdlen

(***************************************************************************)
(* Completion.                                                             *)
(***************************************************************************)
\* where the run of non-zero bytes that ends at c begins
RECURSIVE TokenStart(_, _)
TokenStart(cl, c) ==
    IF c <= 0 THEN 0
    ELSE IF cl[c - 1] = 0 THEN c
    ELSE TokenStart(cl, c - 1)

\* the token the cursor is at the end of, empty after a separator
CurrentToken == Bytes(mrl.cmdline, TokenStart(mrl.cmdline, mrl.cursor), mrl.cursor)

IsPrefix(a, b) == Len(a) <= Len(b) /\ SubSeq(b, 1, Len(a)) = a

\* the candidates the completer returned in the last call
ComplToken == Events(log, "compl_token")

\* Tab is typed, the cursor inside the line, and the completer returns n
\* candidates (n a set of numbers) that begin with the current token
TabReturns(n) ==
    /\ ~fault
    /\ mrl.escape = 0
    /\ last_ch' = MICRORL_KEY_HT
    /\ mrl.cursor <= mrl.cmdlen
    /\ ComplToken' # <<>>
    /\ Len(ComplToken'[1].argv) \in n
    /\ \A k \in 1 .. Len(ComplToken'[1].argv) : IsPrefix(CurrentToken, ComplToken'[1].argv[k])

\* text is in cmdline from c on, what was from c on behind it
InsertedAt(c, text) ==
    /\ ~fault'
    /\ mrl'.cmdlen = mrl.cmdlen + Len(text)
    /\ mrl'.cursor = c + Len(text)
    /\ \A i \in 0 .. (c - 1) : mrl'.cmdline[i] = mrl.cmdline[i]
    /\ \A i \in 1 .. Len(text) : mrl'.cmdline[c + i - 1] = text[i]
    /\ \A i \in c .. (mrl.cmdlen - 1) : mrl'.cmdline[i + Len(text)] = mrl.cmdline[i]

\* C21: Tab with exactly one candidate, which begins with the current
\* token, inserts at the cursor the rest of the candidate and one
\* separator (len(candidate) - len(current_token) + 1 bytes) and leaves the
\* cursor behind them.  (Refuted: near the end of the buffer, and with the
\* cursor inside a word.)
C21_OneCandidate ==
    [][ TabReturns({1}) =>
        LET cand == ComplToken'[1].argv[1]
        IN  InsertedAt(mrl.cursor,
                       SubSeq(cand, Len(CurrentToken) + 1, Len(cand)) \o <<0>>)
      ]_vars

\* C21 fails here: Tab has completed "a" to "aa" at the end of the buffer
\* and appended no separator
C21_NoRoomForSeparator ==
    /\ ~fault
    /\ last_ch = MICRORL_KEY_HT
    /\ ComplToken # <<>>
    /\ Len(ComplToken[1].argv) = 1
    /\ mrl.cursor = mrl.cmdlen
    /\ mrl.cmdlen = MICRORL_CFG_CMDLINE_LEN - 1
    /\ mrl.cmdline[mrl.cmdlen - 1] # 0
    /\ mrl.cmdline[mrl.cmdlen - 3] = 0

\* the length of the longest common prefix of the candidates
CommonPrefix(cands) ==
    LET common == {n \in 0 .. Len(cands[1]) :
                      \A k \in 1 .. Len(cands) :
                          Len(cands[k]) >= n /\ SubSeq(cands[k], 1, n) = SubSeq(cands[1], 1, n)}
    IN  CHOOSE n \in common : \A o \in common : o <= n

\* the candidates, each followed by a space
RECURSIVE Listed(_)
Listed(cands) ==
    IF cands = <<>> THEN <<>> ELSE cands[1] \o <<CH_SPACE>> \o Listed(Tail(cands))

\* C22: Tab with two or more candidates, which begin with the current
\* token, sends ENDL, every candidate in order followed by a space, ENDL
\* and the prompt to the sink, and inserts at the cursor the bytes of the
\* first candidate from len(current_token) to the longest common prefix L
\* of the candidates, without a separator; with L = len(current_token) the
\* line, cmdlen and cursor stay as they were.  (Refuted: at the end of the
\* buffer, and with the cursor inside a word.)
C22_SeveralCandidates ==
    [][ TabReturns(2 .. 3) =>
        LET cands == ComplToken'[1].argv
            list  == MICRORL_CFG_END_LINE \o Listed(cands) \o MICRORL_CFG_END_LINE
                         \o prompt_default
        IN  /\ IsPrefix(list, SinkOf(log'))
            /\ InsertedAt(mrl.cursor,
                          SubSeq(cands[1], Len(CurrentToken) + 1, CommonPrefix(cands)))
      ]_vars

\* C22 fails here: Tab after a separator at the end of the buffer has
\* listed candidates with a common prefix and inserted nothing
C22_NoRoomForPrefix ==
    /\ ~fault
    /\ last_ch = MICRORL_KEY_HT
    /\ ComplToken # <<>>
    /\ Len(ComplToken[1].argv) >= 2
    /\ mrl.cursor = mrl.cmdlen
    /\ mrl.cmdlen = MICRORL_CFG_CMDLINE_LEN - 1
    /\ mrl.cmdline[mrl.cmdlen - 1] = 0

(***************************************************************************)
(* Callbacks that are not registered.                                      *)
(***************************************************************************)
\* the call left the line, the echo mode and the history alone and sent
\* nothing to the sink
KeyIgnored ==
    /\ ~fault'
    /\ mrl'.cmdline = mrl.cmdline
    /\ mrl'.cmdlen = mrl.cmdlen
    /\ mrl'.cursor = mrl.cursor
    /\ mrl'.echo = mrl.echo
    /\ mrl'.ring_hist = mrl.ring_hist
    /\ log' = <<>>

\* C23: Tab with no get_completion callback and ^C with no sigint callback
\* leave cmdline, cmdlen, cursor, echo and the history as they were and
\* send nothing to the sink; a non-coalesced Enter with no execute callback
\* calls no callback, stores the line in the history as it does otherwise
\* (cmdlen > 0, echo ON), prints the prompt last and resets the line.
C23_MissingCallbacks ==
    [][ (~fault /\ mrl.escape = 0) =>
        /\ (last_ch' = MICRORL_KEY_HT /\ ~mrl.get_completion) => KeyIgnored
        /\ (last_ch' = MICRORL_KEY_ETX /\ ~mrl.sigint) => KeyIgnored
        /\ (HandlerRan' /\ ~mrl.execute) =>
              /\ ~fault'
              /\ \A k \in 1 .. Len(log') : log'[k].op \in {"print", "split", "hist_save_line"}
              /\ (mrl.cmdlen > 0 /\ mrl.echo = MICRORL_ECHO_ON) =>
                    /\ HistEntries' # <<>>
                    /\ HistEntries'[Len(HistEntries')] = Bytes(mrl.cmdline, 0, mrl.cmdlen)
              /\ log'[Len(log')] = Ev("print", prompt_default, <<>>)
              /\ mrl'.cmdline = ZeroLine
              /\ mrl'.cmdlen = 0
              /\ mrl'.cursor = 0
      ]_vars

\* C23 happens: Enter on a line of two tokens with no execute callback has
\* stored the line and printed the prompt
C23_EnterWithoutExecutor ==
    /\ ~mrl.execute
    /\ HandlerRan
    /\ SplitStatus = 2
    /\ Executed = <<>>
    /\ HistEntries # <<>>
    /\ HistEntries[Len(HistEntries)] = EnteredLine
    /\ mrl.cmdlen = 0

(***************************************************************************)
(* Escape sequences.                                                       *)
(***************************************************************************)
\* the byte ended the escape sequence and did nothing else
EndsSilently ==
    /\ ~fault'
    /\ mrl'.escape = 0
    /\ mrl'.cmdline = mrl.cmdline
    /\ mrl'.cmdlen = mrl.cmdlen
    /\ mrl'.cursor = mrl.cursor
    /\ mrl'.ring_hist.cur = mrl.ring_hist.cur
    /\ log' = <<>>

\* C24: the byte that follows an ESC, if it is not '[', ends the escape
\* sequence, leaves cmdline, cmdlen, cursor and ring_hist.cur as they were
\* and sends nothing to the sink, whatever sequences came before.
\* (Refuted: escape_seq keeps the value the sequence before left.)
C24_EscStartsInNone ==
    [][ (/\ ~fault
         /\ mrl.escape # 0
         /\ last_ch = MICRORL_KEY_ESC
         /\ last_ch' # CH_BRACKET)
        => EndsSilently
      ]_vars

\* C24 fails from here: an ESC has been typed, the cursor inside the line,
\* and escape_seq still is MICRORL_ESC_HOME from the sequence before
C24_EscInStaleHome ==
    /\ ~fault
    /\ mrl.escape # 0
    /\ last_ch = MICRORL_KEY_ESC
    /\ mrl.escape_seq = MICRORL_ESC_HOME
    /\ mrl.cursor > 0

\* C25: after ESC [, a byte other than 'A', 'B', 'C', 'D', '7', '8' (a
\* second '[' too) ends the sequence with no effect; after ESC [ 7 or
\* ESC [ 8 every byte ends it, '~' moving the cursor to the start or the
\* end of the line and any other byte ('[' too) with no effect.
\* (Refuted: '[' never ends a sequence.)
C25_EscapeBounded ==
    [][ (~fault /\ mrl.escape # 0) =>
        /\ (last_ch = CH_BRACKET /\ last_ch' \notin {65, 66, 67, 68, 55, 56})
           => EndsSilently
        /\ (last_ch \in {55, 56} /\ last_ch' # CH_TILDE)
           => EndsSilently
        /\ (last_ch \in {55, 56} /\ last_ch' = CH_TILDE)
           => /\ ~fault'
              /\ mrl'.escape = 0
              /\ mrl'.cmdline = mrl.cmdline
              /\ mrl'.cmdlen = mrl.cmdlen
              /\ mrl'.cursor = IF last_ch = 55 THEN 0 ELSE mrl.cmdlen
      ]_vars

\* C25 fails from here: ESC [ 7 has been typed, the cursor inside the line;
\* a '[' now does not end the sequence
C25_HomePending ==
    /\ ~fault
    /\ mrl.escape # 0
    /\ last_ch = 55
    /\ mrl.escape_seq = MICRORL_ESC_HOME
    /\ mrl.cursor > 0

(***************************************************************************)
(* Editing keys.                                                           *)
(***************************************************************************)
\* BS or DEL is typed outside an escape sequence
Erases ==
    /\ ~fault
    /\ mrl.escape = 0
    /\ last_ch' \in {MICRORL_KEY_BS, MICRORL_KEY_DEL}

\* the byte at cursor - 1 is gone: the bytes left of it are as they were,
\* cmdline[cursor..cmdlen) is one place to the left, cursor and cmdlen are
\* one less
ErasedOne ==
    /\ ~fault'
    /\ mrl'.cursor = mrl.cursor - 1
    /\ mrl'.cmdlen = mrl.cmdlen - 1
    /\ \A i \in 0 .. (mrl.cursor - 2) : mrl'.cmdline[i] = mrl.cmdline[i]
    /\ \A i \in mrl.cursor .. (mrl.cmdlen - 1) : mrl'.cmdline[i - 1] = mrl.cmdline[i]

\* C26: BS or DEL with cursor > 0 removes the byte at cursor - 1 (the bytes
\* left of it unchanged, cmdline[cursor..cmdlen) shifted left by one,
\* cursor and cmdlen one less); with cursor = 0 no field of the editor
\* changes (last_endl is cleared as for every key) and nothing is sent to
\* the sink.  (Refuted where ^D has left the cursor behind the end of the
\* line.)
C26_Backspace ==
    [][ Erases =>
        IF mrl.cursor > 0 THEN ErasedOne
        ELSE mrl' = [mrl EXCEPT !.last_endl = 0] /\ log' = <<>> /\ ~fault'
      ]_vars

\* C26 fails here: BS with the cursor behind the end of an empty line, where
\* ^D had left it (cmdlen becomes -1 and the repaint loops on it)
C26_ErasedBehindEnd ==
    /\ fault
    /\ last_ch \in {MICRORL_KEY_BS, MICRORL_KEY_DEL}
    /\ mrl.cmdlen = 0
    /\ mrl.cursor = 1

\* C27: ^D with cursor < cmdlen removes the byte at the cursor (the bytes
\* left of the cursor unchanged, cmdline[cursor+1..cmdlen) shifted left by
\* one, cmdlen one less, cursor unchanged); with cursor = cmdlen it leaves
\* cmdline, cmdlen and cursor as they were.  (Refuted: ^D at the end of a
\* line that is not empty.)
C27_DeleteForward ==
    [][ (~fault /\ mrl.escape = 0 /\ last_ch' = MICRORL_KEY_EOT
                /\ mrl.cursor <= mrl.cmdlen) =>
        /\ ~fault'
        /\ mrl'.cursor = mrl.cursor
        /\ IF mrl.cursor < mrl.cmdlen
           THEN /\ mrl'.cmdlen = mrl.cmdlen - 1
                /\ \A i \in 0 .. (mrl.cursor - 1) : mrl'.cmdline[i] = mrl.cmdline[i]
                /\ \A i \in (mrl.cursor + 1) .. (mrl.cmdlen - 1) :
                       mrl'.cmdline[i - 1] = mrl.cmdline[i]
           ELSE /\ mrl'.cmdlen = mrl.cmdlen
                /\ mrl'.cmdline = mrl.cmdline
      ]_vars

\* C27 fails here: ^D at the end of a line of two bytes or more has taken
\* one byte off cmdlen
C27_DeletedAtEnd ==
    /\ ~fault
    /\ last_ch = MICRORL_KEY_EOT
    /\ mrl.cmdlen >= 1
    /\ mrl.cursor = mrl.cmdlen + 1
    /\ mrl.cmdline[mrl.cmdlen] = 0

\* C28: Enter right after ^K at cursor c stores in the history the bytes
\* that were at positions < c, passes to execute the tokens of these bytes
\* and nothing of what was behind them, and accepts the kept text if it is
\* well formed (a closing quote at its end too) and has fewer than
\* MICRORL_CFG_CMD_TOKEN_NMB tokens.  (Refuted: ^K leaves the killed bytes
\* behind cmdlen without a terminator.)
C28_KillThenEnter ==
    [][ (~fault /\ mrl.escape = 0 /\ last_ch = MICRORL_KEY_VT /\ HandlerRan') =>
        LET kept == Bytes(mrl.cmdline, 0, mrl.cmdlen)
            r    == QuotedTokens(kept, 1, <<>>, 0)
        IN  /\ ~fault'
            /\ (mrl.cmdlen > 0 /\ mrl.echo = MICRORL_ECHO_ON) =>
                  (HistEntries' # <<>> /\ HistEntries'[Len(HistEntries')] = kept)
            /\ (Executed' # <<>>) => (Executed'[1].argv = r.tokens)
            /\ (r.ok /\ Len(r.tokens) \in 1 .. (MICRORL_CFG_CMD_TOKEN_NMB - 1)) =>
                  (Executed' # <<>>)
      ]_vars

\* C28 fails here: "ab", ^B, ^K, Enter has passed "ab" to execute and stored
\* "a" in the history
C28_KilledByteExecuted ==
    /\ ~fault
    /\ HandlerRan
    /\ EnteredLine = <<97>>
    /\ Executed # <<>>
    /\ Executed[1].argv = <<(<<97, 98>>)>>
    /\ HistEntries # <<>>
    /\ HistEntries[Len(HistEntries)] = <<97>>

\* C29: ^U with cursor c deletes the c bytes left of the cursor: afterwards
\* cmdline[0..cmdlen-c) is the old cmdline[c..cmdlen), cursor is 0, cmdlen
\* is c less and cmdline[cmdlen] is 0; with c = 0 the line is unchanged.
\* (Refuted: after ^K the byte behind the kept text is not a terminator, and
\* ^U moves it to the new end of the line.)
C29_KillToStart ==
    [][ (~fault /\ mrl.escape = 0 /\ last_ch' = MICRORL_KEY_NAK) =>
        /\ ~fault'
        /\ mrl'.cursor = 0
        /\ mrl'.cmdlen = mrl.cmdlen - mrl.cursor
        /\ mrl'.cmdlen \in CmdIdx
        /\ \A i \in 0 .. (mrl.cmdlen - mrl.cursor - 1) :
               mrl'.cmdline[i] = mrl.cmdline[i + mrl.cursor]
        /\ mrl'.cmdline[mrl'.cmdlen] = 0
        /\ (mrl.cursor = 0) => (mrl'.cmdline = mrl.cmdline)
      ]_vars

\* C29 fails here: ^U at the end of the text that ^K had kept has emptied
\* the line, and cmdline[0] holds a killed byte
C29_KilledByteKept ==
    /\ ~fault
    /\ last_ch = MICRORL_KEY_NAK
    /\ mrl.cursor = 0
    /\ mrl.cmdlen = 0
    /\ mrl.cmdline[0] # 0

\* the keys that edit the line: BS, DEL, ^U, ^D, Tab and the printable byte
EditingKeys == {MICRORL_KEY_BS, MICRORL_KEY_DEL, MICRORL_KEY_NAK, MICRORL_KEY_EOT,
                MICRORL_KEY_HT, 97, CH_SPACE}

\* C30: no editing operation (BS, ^U, ^D, insertion, Tab) reads or writes
\* cmdline at an index outside 0 .. MICRORL_CFG_CMDLINE_LEN - 1, whatever
\* cursor and cmdlen are.  (Refuted: ^D on a full line reads
\* cmdline[MICRORL_CFG_CMDLINE_LEN].)
C30_AccessInBounds ==
    (last_ch \in EditingKeys) => (Events(log, "oob_read") = <<>>)

\* C30 fails here: ^D at the start of a full line has read the byte behind
\* the end of cmdline
C30_DeleteReadBehindBuffer ==
    /\ ~fault
    /\ last_ch = MICRORL_KEY_EOT
    /\ mrl.cursor = 0
    /\ mrl.cmdlen = MICRORL_CFG_CMDLINE_LEN - 2
    /\ Events(log, "oob_read") # <<>>
    /\ Events(log, "oob_read")[1].s = <<MICRORL_CFG_CMDLINE_LEN, MICRORL_CFG_CMDLINE_LEN>>

\* the cursor motion that the byte of the step asks for: "none" if it is no
\* cursor-motion key and does not complete a cursor-motion sequence
Motion ==
    IF mrl.escape = 0 THEN
        IF last_ch' = MICRORL_KEY_SOH THEN "home"
        ELSE IF last_ch' = MICRORL_KEY_ENQ THEN "end"
        ELSE IF last_ch' = MICRORL_KEY_ACK THEN "right"
        ELSE IF last_ch' = MICRORL_KEY_STX THEN "left"
        ELSE "none"
    ELSE IF mrl.escape_seq = MICRORL_ESC_BRACKET /\ last_ch' = 67 THEN "right"
    ELSE IF mrl.escape_seq = MICRORL_ESC_BRACKET /\ last_ch' = 68 THEN "left"
    ELSE IF mrl.escape_seq = MICRORL_ESC_HOME /\ last_ch' = CH_TILDE THEN "home"
    ELSE IF mrl.escape_seq = MICRORL_ESC_END /\ last_ch' = CH_TILDE THEN "end"
    ELSE "none"

\* C31: the cursor-motion keys change only the cursor: ^A and ESC [ 7 ~ set
\* it to 0, ^E and ESC [ 8 ~ to cmdlen, ^F and ESC [ C add 1 only if
\* cursor < cmdlen, ^B and ESC [ D take 1 only if cursor > 0; cmdline,
\* cmdlen, echo and the history ring are unchanged.
C31_CursorMotion ==
    [][ (~fault /\ Motion # "none") =>
        /\ ~fault'
        /\ mrl'.cmdline = mrl.cmdline
        /\ mrl'.cmdlen = mrl.cmdlen
        /\ mrl'.echo = mrl.echo
        /\ mrl'.ring_hist = mrl.ring_hist
        /\ mrl'.cursor =
              IF Motion = "home" THEN 0
              ELSE IF Motion = "end" THEN mrl.cmdlen
              ELSE IF Motion = "right"
              THEN (IF mrl.cursor < mrl.cmdlen THEN mrl.cursor + 1 ELSE mrl.cursor)
              ELSE (IF mrl.cursor > 0 THEN mrl.cursor - 1 ELSE mrl.cursor)
      ]_vars

\* ESC [ C has moved the cursor one place right inside the line, with a
\* line stored in the history
C31_MovedRightBySequence ==
    /\ ~fault
    /\ last_ch = 67
    /\ mrl.escape = 0
    /\ mrl.cursor = 1
    /\ mrl.cmdlen = 3
    /\ log # <<>>
    /\ HistEntries # <<>>

\* the byte of the step is dropped: a space on the empty line or a control
\* byte that no case of the switch names
Ignored ==
    /\ mrl.escape = 0
    /\ \/ last_ch' = CH_SPACE /\ mrl.cmdlen = 0
       \/ last_ch' \in UnassignedKeys

\* the byte of the step is ^C or ^R
DisplayOnly ==
    /\ mrl.escape = 0
    /\ last_ch' \in {MICRORL_KEY_ETX, MICRORL_KEY_DC2}

\* C32: a space typed on the empty line, a control byte below 0x20 that has
\* no action, ^C and ^R leave cmdline, cmdlen, cursor and the history as
\* they were; the ignored space and the control bytes without action send
\* nothing to the sink.
C32_IgnoredBytes ==
    [][ (~fault /\ (Ignored \/ DisplayOnly)) =>
        /\ ~fault'
        /\ mrl'.cmdline = mrl.cmdline
        /\ mrl'.cmdlen = mrl.cmdlen
        /\ mrl'.cursor = mrl.cursor
        /\ mrl'.ring_hist = mrl.ring_hist
        /\ Ignored => (log' = <<>>)
      ]_vars

\* a space has been typed on the empty line, after a line was stored in the
\* history
C32_LeadingSpaceDropped ==
    /\ ~fault
    /\ last_ch = CH_SPACE
    /\ mrl.cmdlen = 0
    /\ mrl.cursor = 0
    /\ log = <<>>
    /\ HistEntries # <<>>

\* the calls of the completer in the last call: s = <<argc>>, argv
Completer == Events(log, "get_completion")

\* Tab is typed and the completer is called
TabCompletes ==
    /\ ~fault
    /\ mrl.escape = 0
    /\ last_ch' = MICRORL_KEY_HT
    /\ Completer' # <<>>

\* the cursor is at the start of a new token
AtNewToken ==
    \/ mrl.cursor = 0 /\ mrl.cmdlen = 0
    \/ mrl.cursor > 0 /\ mrl.cursor <= MICRORL_CFG_CMDLINE_LEN /\ mrl.cmdline[mrl.cursor - 1] = 0

\* C33: whenever Tab calls the completer, argc >= 1 and argc <=
\* MICRORL_CFG_CMD_TOKEN_NMB; with the cursor at the start of a new token
\* (at 0 on the empty line, or right of a separator) the last element of
\* argv is the empty string.  (Refuted: Tab on the empty line.)
C33_CompleterArgs ==
    [][ TabCompletes =>
        /\ Completer'[1].s[1] >= 1
        /\ Completer'[1].s[1] <= MICRORL_CFG_CMD_TOKEN_NMB
        /\ Len(Completer'[1].argv) = Completer'[1].s[1]
        /\ AtNewToken => (Completer'[1].argv[Completer'[1].s[1]] = <<>>)
      ]_vars

\* C33 fails here: Tab on the empty line has called the completer with
\* argc = 0
C33_NoArgument ==
    /\ last_ch = MICRORL_KEY_HT
    /\ mrl.cmdlen = 0
    /\ mrl.cursor = 0
    /\ Completer # <<>>
    /\ Completer[1].s = <<0>>
    /\ Completer[1].argv = <<>>

\* argv without the empty string that marks the start of a new token
Words(argv) ==
    IF argv # <<>> /\ argv[Len(argv)] = <<>> THEN SubSeq(argv, 1, Len(argv) - 1) ELSE argv

\* C34: the completer receives the tokens of cmdline[0..cursor): every
\* token is made of bytes left of the cursor, the last one ends at the
\* cursor when the cursor is inside a word, and with one candidate (the
\* cursor not at 0, and room for it) what is inserted is the candidate
\* from the length of that truncated token on, and a separator.
\* (Refuted: the cursor inside a word.)
C34_TokensUpToCursor ==
    [][ TabCompletes =>
        /\ Words(Completer'[1].argv) = Runs(Bytes(mrl.cmdline, 0, mrl.cursor), 1)
        /\ (/\ TabReturns({1})
            /\ mrl.cursor > 0
            /\ mrl.cmdlen + Len(ComplToken'[1].argv[1]) - Len(CurrentToken) + 1
                   < MICRORL_CFG_CMDLINE_LEN) =>
              InsertedAt(mrl.cursor,
                         SubSeq(ComplToken'[1].argv[1], Len(CurrentToken) + 1,
                                Len(ComplToken'[1].argv[1])) \o <<0>>)
      ]_vars

\* C34 fails here: Tab between the two bytes of "aa" has passed "aa" to the
\* completer, which returned no candidate
C34_WholeWordPassed ==
    /\ ~fault
    /\ last_ch = MICRORL_KEY_HT
    /\ mrl.cursor = 1
    /\ mrl.cmdlen = 2
    /\ Completer # <<>>
    /\ Completer[1].argv = <<(<<97, 97>>)>>
    /\ ComplToken # <<>>
    /\ ComplToken[1].argv = <<>>

(***************************************************************************)
(* The history ring as a bounded FIFO of lines.                            *)
(***************************************************************************)
\* the lines hist_save_line was called with in the last call
Saved == Events(log, "hist_save_line")

\* the bytes that entries take in the ring: a length byte and the payload
RECURSIVE EntryBytes(_)
EntryBytes(entries) ==
    IF entries = <<>> THEN 0
    ELSE Len(Head(entries)) + 1 + EntryBytes(Tail(entries))

\* entries, a new entry of len bytes and the end mark fit in the ring
FitsWith(entries, len) ==
    EntryBytes(entries) + len + 2 <= MICRORL_CFG_RING_HISTORY_LEN

\* entries without the fewest oldest ones that make room for len bytes
RECURSIVE Surviving(_, _)
Surviving(entries, len) ==
    IF entries = <<>> \/ FitsWith(entries, len) THEN entries
    ELSE Surviving(Tail(entries), len)

\* C35: the history ring is a bounded FIFO of lines: a save appends the
\* line behind the entries that survive, which are the old entries without
\* the fewest oldest ones that make room, each with its length and bytes
\* as before; a call that saves nothing leaves the entries as they were.
C35_RingIsFifo ==
    [][ ~fault' =>
        HistEntries' =
            IF Saved' # <<>> /\ Len(Saved'[1].s) <= MICRORL_CFG_RING_HISTORY_LEN - 2
            THEN Append(Surviving(HistEntries, Len(Saved'[1].s)), Saved'[1].s)
            ELSE HistEntries
      ]_vars

\* a save behind older entries that were evicted: two entries are left,
\* the one just saved is the second and its bytes wrap around the end of the
\* ring
C35_SavedAroundTheEnd ==
    /\ ~fault
    /\ Saved # <<>>
    /\ Len(HistEntries) = 2
    /\ HistEntries[2] = Saved[1].s
    /\ Len(HistEntries[1]) = 1
    /\ Len(HistEntries[2]) = 3
    /\ mrl.ring_hist.begin > 0
    /\ mrl.ring_hist.end < mrl.ring_hist.begin

\* C36: hist_save_line called with a line of more than
\* MICRORL_CFG_RING_HISTORY_LEN - 2 bytes has no effect: ring_buf, begin
\* and end are as before and no entry is evicted.
C36_TooLongRejected ==
    [][ (Saved' # <<>> /\ Len(Saved'[1].s) > MICRORL_CFG_RING_HISTORY_LEN - 2) =>
        /\ ~fault'
        /\ mrl'.ring_hist.ring_buf = mrl.ring_hist.ring_buf
        /\ mrl'.ring_hist.begin = mrl.ring_hist.begin
        /\ mrl'.ring_hist.end = mrl.ring_hist.end
        /\ HistEntries' = HistEntries
      ]_vars

\* a line of MICRORL_CFG_RING_HISTORY_LEN - 1 bytes was passed to
\* hist_save_line on a ring that holds two entries
C36_LongLineOnFilledRing ==
    /\ ~fault
    /\ Saved # <<>>
    /\ Len(Saved[1].s) = MICRORL_CFG_RING_HISTORY_LEN - 1
    /\ Len(HistEntries) = 2
    /\ mrl.ring_hist.begin > 0

\* a line of 1 to MICRORL_CFG_RING_HISTORY_LEN - 2 bytes is saved to a ring
\* that is not empty
SavesToFilledRing ==
    /\ ~fault
    /\ Saved' # <<>>
    /\ Len(Saved'[1].s) <= MICRORL_CFG_RING_HISTORY_LEN - 2
    /\ mrl.ring_hist.ring_buf[mrl.ring_hist.begin] # 0

\* MICRORL_CFG_RING_HISTORY_LEN - used_forward - 1 > len, the oldest entry
\* at b, with used_forward = (end - b - 1) mod MICRORL_CFG_RING_HISTORY_LEN
RoomAsStated(h, b, len) ==
    MICRORL_CFG_RING_HISTORY_LEN - ((h.end - b - 1) % MICRORL_CFG_RING_HISTORY_LEN) - 1 > len

\* the same with used_forward = (end - b) mod MICRORL_CFG_RING_HISTORY_LEN
Room(h, b, len) ==
    MICRORL_CFG_RING_HISTORY_LEN - ((h.end - b) % MICRORL_CFG_RING_HISTORY_LEN) - 1 > len

\* the headers of the entries that the step evicts
Evicted == RingHeaders(mrl.ring_hist, mrl.ring_hist.begin)
               \ RingHeaders(mrl.ring_hist, mrl'.ring_hist.begin)

\* C37 as stated: on a ring that is not empty hist_save_line stores a line
\* of len bytes without evicting if and only if
\* MICRORL_CFG_RING_HISTORY_LEN - used_forward - 1 > len, with
\* used_forward = (end - begin - 1) mod MICRORL_CFG_RING_HISTORY_LEN;
\* otherwise it evicts oldest entries until that holds or the ring is empty.
\* (Refuted: the code keeps one byte more.)
C37_SpaceRuleAsStated ==
    [][ SavesToFilledRing =>
        /\ (mrl'.ring_hist.begin = mrl.ring_hist.begin)
              <=> RoomAsStated(mrl.ring_hist, mrl.ring_hist.begin, Len(Saved'[1].s))
        /\ \/ mrl'.ring_hist.begin = mrl.ring_hist.end
           \/ RoomAsStated(mrl.ring_hist, mrl'.ring_hist.begin, Len(Saved'[1].s))
        /\ \A p \in Evicted : ~RoomAsStated(mrl.ring_hist, p, Len(Saved'[1].s))
      ]_vars

\* C37, amended: the same with used_forward = (end - begin) mod
\* MICRORL_CFG_RING_HISTORY_LEN, the bytes from the oldest header up to the
\* end mark: without eviction if and only if
\* MICRORL_CFG_RING_HISTORY_LEN - used_forward - 1 > len, otherwise oldest
\* entries are evicted until that holds or the ring is empty.
C37_SpaceRule ==
    [][ SavesToFilledRing =>
        /\ (mrl'.ring_hist.begin = mrl.ring_hist.begin)
              <=> Room(mrl.ring_hist, mrl.ring_hist.begin, Len(Saved'[1].s))
        /\ \/ mrl'.ring_hist.begin = mrl.ring_hist.end
           \/ Room(mrl.ring_hist, mrl'.ring_hist.begin, Len(Saved'[1].s))
        /\ \A p \in Evicted : ~Room(mrl.ring_hist, p, Len(Saved'[1].s))
      ]_vars

\* a line of 3 bytes was saved to a ring that held one entry of 2 bytes at
\* 0, where 7 - 2 - 1 > 3: the entry was evicted, the new one is the only
\* one and begins at 3
C37_ExactFitEvicts ==
    /\ ~fault
    /\ Saved # <<>>
    /\ Len(Saved[1].s) = 3
    /\ mrl.ring_hist.begin = 3
    /\ mrl.ring_hist.end = 0
    /\ mrl.ring_hist.ring_buf[0] = 0
    /\ HistEntries = <<Saved[1].s>>

\* terminal_print_line has run: the call and what it was given
PrintCall == Events(log, "terminal_print_line")

PrintDone == PrintCall # <<>> /\ (fault \/ Len(log) > 1)

\* C38: terminal_print_line never holds more than
\* MICRORL_CFG_PRINT_BUFFER_LEN bytes in str, whatever the start position
\* and the length of the line, repaints of more bytes than str has
\* included; what it sends to the sink, the prints concatenated, is what the
\* reset wrote, the bytes of the line with 0 shown as 0x20, ESC [ K and the
\* cursor move.  (Refuted: a line longer than str is written behind its
\* end unless str happens to hold a 0.)
C38_PrintBuffer ==
    PrintDone =>
        /\ ~fault
        /\ \A k \in 1 .. Len(Events(log, "print")) :
               Len(Events(log, "print")[k].s) < MICRORL_CFG_PRINT_BUFFER_LEN
        /\ SinkOf(log) = PrintCall[1].argv[1]
                            \o [k \in 1 .. Len(PrintCall[1].s) |-> Shown(PrintCall[1].s[k])]
                            \o PrintCall[1].argv[2]

\* C38 fails here: a line of MICRORL_CFG_PRINT_BUFFER_LEN bytes printed
\* from the start with no 0 in str has been written behind its end
C38_WrittenBehindStr ==
    /\ fault
    /\ PrintCall # <<>>
    /\ Len(PrintCall[1].s) = MICRORL_CFG_PRINT_BUFFER_LEN
    /\ PrintCall[1].argv[1] = <<>>
    /\ PrintCall[1].argv[3] = <<MICRORL_CFG_PRINT_BUFFER_LEN>>
    /\ Events(log, "print") = <<>>

\* the error report of the handler, if split failed
ErrorReport ==
    IF SplitStatus = -1
    THEN <<Ev("print", ErrorMsg, <<>>), Ev("print", MICRORL_CFG_END_LINE, <<>>)>>
    ELSE <<>>

\* C39: on an Enter that is not coalesced the events come in this order:
\* the end of line is sent; the line is stored in the history (if it is);
\* split runs and, if it fails, the error message is sent; execute is called
\* (if it is), with the tokens still in cmdline; the prompt is sent; the
\* line is reset.
C39_EnterOrder ==
    (~fault /\ HandlerRan) =>
        /\ log = <<Ev("print", MICRORL_CFG_END_LINE, <<>>)>>
                    \o Saved
                    \o Events(log, "split")
                    \o ErrorReport
                    \o Executed
                    \o Events(log, "microrl_set_echo")
                    \o <<Ev("print", prompt_default, <<>>)>>
        /\ Len(Saved) <= 1
        /\ Len(Events(log, "split")) = 1
        /\ Len(Executed) <= 1
        /\ Saved # <<>> => (Saved[1].s = EnteredLine)
        /\ Executed # <<>> =>
              /\ Len(Executed[1].argv) = SplitStatus
              /\ \A k \in 1 .. SplitStatus : Executed[1].argv[k] # <<>>
              /\ NoQuoteChars(EnteredLine) => (Executed[1].argv = Runs(EnteredLine, 1))
        /\ mrl.cmdlen = 0
        /\ mrl.cursor = 0
        /\ mrl.cmdline = ZeroLine

\* Enter on "a b": the line was stored, split, executed, and the prompt
\* came last
C39_SavedSplitExecuted ==
    /\ ~fault
    /\ HandlerRan
    /\ Len(log) = 5
    /\ Saved # <<>>
    /\ Executed # <<>>
    /\ Executed[1].argv = <<(<<97>>), (<<98>>)>>
    /\ log[5] = Ev("print", prompt_default, <<>>)

\* the line as the terminal shows it: a stored 0x00 is a space
Visible(line) == [k \in 1 .. Len(line) |-> IF line[k] = 0 THEN CH_SPACE ELSE line[k]]

\* the line with every space a separator
Separated(line) == [k \in 1 .. Len(line) |-> IF line[k] = CH_SPACE THEN 0 ELSE line[k]]

\* C40: typed spaces separate tokens outside quotes: if the line has no
\* quote character when Enter is pressed, no token passed to execute holds
\* a space byte, and argc is the number of words of the visible line.
\* (Refuted: split under Tab leaves 0x20 in a quoted span, see C9.)
C40_SpacesSeparate ==
    (~fault /\ HandlerRan /\ NoQuoteChars(EnteredLine) /\ Executed # <<>>) =>
        /\ \A k \in 1 .. Len(Executed[1].argv) :
              \A j \in 1 .. Len(Executed[1].argv[k]) : Executed[1].argv[k][j] # CH_SPACE
        /\ Len(Executed[1].argv) = Len(Runs(Separated(Visible(EnteredLine)), 1))

\* C40 fails here: Enter on a line without quotes that shows "a a", and
\* execute received one token
C40_SpaceInsideToken ==
    /\ ~fault
    /\ HandlerRan
    /\ Visible(EnteredLine) = <<97, CH_SPACE, 97>>
    /\ Executed # <<>>
    /\ Executed[1].argv = <<(<<97, CH_SPACE, 97>>)>>

=============================================================================
